---- MODULE Spec2Model ----
(***************************************************************************)
(* Model of the videoDL download queue.                                    *)
(*                                                                         *)
(* DownloadController (src/controllers/download_controller.py) keeps a     *)
(* FIFO list of pending URLs (download_queue), a set of running URLs       *)
(* (current_downloads) and a concurrency limit (max_concurrent).  Jobs are *)
(* handed to a QThreadPool; a job's terminal signal (download_completed or *)
(* download_error of the VideoDownloader) is delivered to the controller's *)
(* slots on the controller's thread, so every handler runs to completion   *)
(* before the next one starts: one action per handler.                     *)
(***************************************************************************)
EXTENDS Integers, Sequences, FiniteSets, TLC

(***************************************************************************)
(* Bounds of the model.                                                    *)
(***************************************************************************)
\* number of distinct URLs the caller may enqueue
NumUrls == 3
\* longest list passed to one add_urls call
MaxBatch == 2
\* largest count passed to set_max_concurrent
MaxCount == 3
\* the smallest count passed to set_max_concurrent is -MinCountBelowZero
MinCountBelowZero == 1
\* most lines the yt-dlp process writes before it exits
MaxLines == 2
MaxTextLen == 4
MaxEntryLen == 2
MaxEntries == 2

(***************************************************************************)
(* Program constants.                                                      *)
(***************************************************************************)
\* self.max_concurrent = 3 in DownloadController.__init__
InitMaxConcurrent == 3
\* the pseudo-URL "System" that VideoDownloader.initialize_yt_dlp passes to
\* download_error; it is never a URL accepted by the validator
System == 0

URLs == 1..NumUrls
Counts == (0 - MinCountBelowZero)..MaxCount
Batches == UNION {[1..n -> URLs] : n \in 0..MaxBatch}

VARIABLES
    download_queue,     \* DownloadController.download_queue (list)
    current_downloads,  \* DownloadController.current_downloads (set)
    max_concurrent,     \* DownloadController.max_concurrent
    pool_max_threads,   \* thread_pool.maxThreadCount()
    pool_tasks,         \* per URL, the DownloadTasks handed to thread_pool.start
                        \* whose terminal signal has not been handled yet
    op,                 \* name of the handler that ran last
    op_arg,             \* {url} of the last terminal handler, {count} of the last
                        \* set_max_concurrent, else {}
    emitted,            \* the signals the last handler emitted, in order
    started,            \* the URLs the last handler passed to thread_pool.start
    cleared,            \* URLs dropped from the queue by clear_queue and not
                        \* enqueued since
    rejected            \* why the last add_urls skipped URLs: "pending", "active",
                        \* "duplicate" (of an earlier URL of the same call)

VARIABLES
    is_shutting_down,       \* VideoDownloader.is_shutting_down
    output_dir,             \* VideoDownloader.output_dir ("" when not selected)
    yt_dlp_path,            \* VideoDownloader.yt_dlp_path (None until initialize_yt_dlp)
    temp_dir_exists,        \* the directory self.temp_dir is on disk
    yt_dlp_file_exists,     \* os.path.exists(self.yt_dlp_path)
    cleanup_timer_active,   \* cleanup_timer exists and is running
    active_processes,       \* VideoDownloader.active_processes (set of handles)
    download_process_pids,  \* VideoDownloader.download_process_pids
    cleanup_pc,             \* position of the thread running cleanup()
    pc,                     \* position of the pool thread running download_video
    output_filename,        \* download_video's local output_filename
    complete_output,        \* download_video's local complete_output, as lines
    events,                 \* signals the current download_video call emitted
    ret,                    \* its return value, <<>> while it runs
    return_site,            \* the return statement it left through
    proc_status,            \* the yt-dlp process: "none", "running", "exited"
    proc_returncode,        \* {} while poll() is None, else {returncode}
    written,                \* lines the process wrote to its stdout so far
    nread,                  \* how many of them download_video has consumed
    requested_dir,          \* the directory asked for last: the constructor's
                            \* argument, then set_output_dir's
    yt_dlp_status,          \* last value of the yt_dlp_status signal
    init_pc,                \* position of the pool thread running initialize_yt_dlp
    cleanup_again,          \* cleanup() has been invoked after an earlier
                            \* invocation had finished
    cleanup_log,            \* what the last cleanup() invocation reported
    running,                \* processes of other jobs that are running
    attempted,              \* terminate_processes: handles its first loop has taken
    pid_attempted,          \* terminate_processes: pids its second loop has taken
    stubborn,               \* processes that outlive a terminate request by more
                            \* than the one second terminate_processes waits
    unreaped,               \* processes that have ended and were not waited for:
                            \* their pids still exist
    sent                    \* what terminate_processes sent each process, in order

\* controllers/url_validator.py: one call of clean_url_list
VARIABLES
    url_input,              \* the argument urls: [kind, value]
    cleaned_urls,           \* the list the call returned
    validator_pc            \* "ready" before the call, "returned" after

\* views/main_window.py: the queue bookkeeping of MainWindow
VARIABLES
    window_download_queue,      \* MainWindow.download_queue
    window_current_downloads,   \* MainWindow.current_downloads
    window_download_widgets,    \* keys of MainWindow.download_widgets
    window_max_thread_count     \* MainWindow.thread_pool.maxThreadCount()

cvars == <<download_queue, current_downloads, max_concurrent, pool_max_threads,
           pool_tasks, op, op_arg, emitted, started, cleared, rejected>>

config_vars == <<output_dir, yt_dlp_path, temp_dir_exists, yt_dlp_file_exists>>

registry_vars == <<active_processes, download_process_pids>>

job_vars == <<pc, output_filename, complete_output, events, ret, return_site>>

proc_vars == <<proc_status, proc_returncode, written, nread>>

call_vars == <<requested_dir, yt_dlp_status, init_pc, cleanup_again, cleanup_log>>

\* the processes of the jobs that run beside the one followed step by step
Procs == {"p1", "p2"}

signal_vars == <<stubborn, unreaped, sent>>

lifecycle_vars == <<running, attempted, pid_attempted, signal_vars>>

dvars == <<is_shutting_down, config_vars, cleanup_timer_active, registry_vars,
           cleanup_pc, job_vars, proc_vars, call_vars, lifecycle_vars>>

validator_vars == <<url_input, cleaned_urls, validator_pc>>

window_vars == <<window_download_queue, window_current_downloads,
                 window_download_widgets, window_max_thread_count>>

vars == <<cvars, dvars, validator_vars, window_vars>>

(***************************************************************************)
(* Helpers on sequences.                                                   *)
(***************************************************************************)
Range(s) == {s[i] : i \in 1..Len(s)}

Occurrences(s, u) == Cardinality({i \in 1..Len(s) : s[i] = u})

IsPrefix(s, t) == Len(s) <= Len(t) /\ SubSeq(t, 1, Len(s)) = s

Distinct(s) == \A i, j \in 1..Len(s) : s[i] = s[j] => i = j

Min(a, b) == IF a < b THEN a ELSE b

(***************************************************************************)
(* Signals of the controller.                                              *)
(***************************************************************************)
\* download_queue_updated.emit(self.download_queue)
QueueUpdated(q) == [sig |-> "download_queue_updated", payload |-> q]

\* all_downloads_completed.emit()
AllDone == [sig |-> "all_downloads_completed", payload |-> <<>>]

(***************************************************************************)
(* DownloadController: the pieces of the handlers.                         *)
(***************************************************************************)
\* faulty variant of NotQueuedOrActive that forgets the Active Set
NotQueuedOnly(url, q, cd) == url \notin Range(q)

\* faulty variant of NotQueuedOrActive that forgets the Pending Queue
NotActiveOnly(url, q, cd) == url \notin cd

\* add_urls: "url not in self.download_queue and url not in self.current_downloads"
NotQueuedOrActive(url, q, cd) == url \notin Range(q) /\ url \notin cd

\* faulty variant of AppendNewUrls that inserts the new URLs at the front
RECURSIVE PrependNewUrls(_, _, _)
PrependNewUrls(urls, q, cd) ==
    IF urls = <<>>
    THEN q
    ELSE PrependNewUrls(Tail(urls),
                        IF NotQueuedOrActive(Head(urls), q, cd)
                        THEN <<Head(urls)>> \o q
                        ELSE q,
                        cd)

\* add_urls: the for loop, run on the list urls
RECURSIVE AppendNewUrls(_, _, _)
AppendNewUrls(urls, q, cd) ==
    IF urls = <<>>
    THEN q
    ELSE AppendNewUrls(Tail(urls),
                       IF NotQueuedOrActive(Head(urls), q, cd)
                       THEN Append(q, Head(urls))
                       ELSE q,
                       cd)

\* add_urls: for the URLs the loop skips, where it found them
\* (q0 is the queue before the call: a URL found in q but not in q0 repeats an
\* earlier URL of the same call)
RECURSIVE SkipReasons(_, _, _, _)
SkipReasons(urls, q0, q, cd) ==
    IF urls = <<>>
    THEN {}
    ELSE LET u == Head(urls)
         IN (IF u \in Range(q0) THEN {"pending"} ELSE {})
            \cup (IF u \in Range(q) \ Range(q0) THEN {"duplicate"} ELSE {})
            \cup (IF u \in cd THEN {"active"} ELSE {})
            \cup SkipReasons(Tail(urls), q0,
                             IF NotQueuedOrActive(u, q, cd) THEN Append(q, u) ELSE q,
                             cd)

\* faulty variant of SlotFree that is off by one
SlotFreeOffByOne(cd, mc) == Cardinality(cd) <= mc

\* _process_queue: "len(self.current_downloads) < self.max_concurrent"
SlotFree(cd, mc) == Cardinality(cd) < mc

\* faulty variant of PopFront that takes the newest URL (list.pop())
PopBack(q) == [url |-> q[Len(q)], rest |-> SubSeq(q, 1, Len(q) - 1)]

\* _process_queue: "url = self.download_queue.pop(0)"
PopFront(q) == [url |-> Head(q), rest |-> Tail(q)]

\* faulty variant of ProcessLoop that admits every pending URL, whatever the limit
ProcessLoopUnlimited(q, cd, st, mc) ==
    [queue |-> <<>>, current |-> cd \cup Range(q), started |-> st \o q]

\* faulty variant of ProcessLoop that admits at most one URL (if, not while)
ProcessLoopOnce(q, cd, st, mc) ==
    IF SlotFree(cd, mc) /\ Len(q) > 0
    THEN [queue |-> PopFront(q).rest, current |-> cd \cup {PopFront(q).url},
          started |-> Append(st, PopFront(q).url)]
    ELSE [queue |-> q, current |-> cd, started |-> st]

\* _process_queue: the while loop; st collects the thread_pool.start calls
RECURSIVE ProcessLoop(_, _, _, _)
ProcessLoop(q, cd, st, mc) ==
    IF SlotFree(cd, mc) /\ Len(q) > 0
    THEN LET p == PopFront(q)
         IN ProcessLoop(p.rest, cd \cup {p.url}, Append(st, p.url), mc)
    ELSE [queue |-> q, current |-> cd, started |-> st]

\* faulty variant of ProcessQueue that does not report the remaining queue
ProcessQueueSilent(q, cd, mc) ==
    LET r == ProcessLoop(q, cd, <<>>, mc)
    IN [queue |-> r.queue, current |-> r.current, started |-> r.started,
        emitted |-> <<>>]

\* _process_queue: the loop, then download_queue_updated.emit(self.download_queue)
ProcessQueue(q, cd, mc) ==
    LET r == ProcessLoop(q, cd, <<>>, mc)
    IN [queue |-> r.queue, current |-> r.current, started |-> r.started,
        emitted |-> <<QueueUpdated(r.queue)>>]

\* faulty variant of StartTasks that starts two tasks per admitted URL
StartTasksTwice(tasks, st) ==
    [u \in URLs |-> tasks[u] + 2 * Occurrences(st, u)]

\* thread_pool.start(task) for every URL of st
StartTasks(tasks, st) ==
    [u \in DOMAIN tasks |-> tasks[u] + Occurrences(st, u)]

\* faulty variant of BothEmpty that looks at the Pending Queue only
PendingEmpty(q, cd) == Len(q) = 0

\* _on_download_completed:
\* "len(self.current_downloads) == 0 and len(self.download_queue) == 0"
BothEmpty(q, cd) == Cardinality(cd) = 0 /\ Len(q) = 0

\* faulty variant of ClampCount that stores the count as given
NoClamp(count) == count

\* set_max_concurrent: "max(1, count)"
ClampCount(count) == IF count > 1 THEN count ELSE 1

\* faulty variant of ClearedQueue that keeps the oldest pending URL
ClearedButFirst(q) == IF q = <<>> THEN q ELSE <<Head(q)>>

\* clear_queue: "self.download_queue.clear()"
ClearedQueue(q) == <<>>

\* faulty variant of AfterError that puts the failed URL back at the end of the queue
AfterErrorRequeue(url, q, cd, mc) ==
    IF url \in cd
    THEN ProcessQueue(Append(q, url), cd \ {url}, mc)
    ELSE [queue |-> q, current |-> cd, started |-> <<>>, emitted |-> <<>>]

\* faulty variant of AfterError that frees the slot without _process_queue
AfterErrorNoAdmit(url, q, cd, mc) ==
    [queue |-> q, current |-> cd \ {url}, started |-> <<>>, emitted |-> <<>>]

\* _on_download_error: the body of the handler
AfterError(url, q, cd, mc) ==
    IF url \in cd
    THEN ProcessQueue(q, cd \ {url}, mc)
    ELSE [queue |-> q, current |-> cd, started |-> <<>>, emitted |-> <<>>]

\* faulty variant of AfterCompleted that frees the slot without _process_queue
AfterCompletedNoAdmit(url, q, cd, mc) ==
    [queue |-> q, current |-> cd \ {url}, started |-> <<>>,
     emitted |-> IF BothEmpty(q, cd \ {url}) THEN <<AllDone>> ELSE <<>>]

\* _on_download_completed: the body of the handler
AfterCompleted(url, q, cd, mc) ==
    LET r == IF url \in cd
             THEN ProcessQueue(q, cd \ {url}, mc)
             ELSE [queue |-> q, current |-> cd, started |-> <<>>, emitted |-> <<>>]
    IN [queue |-> r.queue, current |-> r.current, started |-> r.started,
        emitted |-> IF BothEmpty(r.queue, r.current)
                    THEN Append(r.emitted, AllDone)
                    ELSE r.emitted]

(***************************************************************************)
(* VideoDownloader (src/models/downloader.py): values and initial state.   *)
(***************************************************************************)
\* Python's None (yt_dlp_path before initialize_yt_dlp, output_filename before
\* a destination line was read)
None == "None"

\* the value of a selected output directory
SomeDir == "dir"

\* the destinations yt-dlp may announce
Files == {"a.mp4", "b.mp4"}

\* the lines the process may write: a whitespace-only line, a progress line,
\* "[download] Destination: f" for each destination f, and bytes that the
\* text-mode pipe cannot decode
BlankLine == "  "
ProgressLine == "[download]  50.0% of 3.00MiB"
DestinationLine ==
    [f \in Files |->
        IF f = "a.mp4" THEN "[download] Destination: a.mp4"
                       ELSE "[download] Destination: b.mp4"]
UndecodableLine == "<0xff>"
Lines == {BlankLine, ProgressLine, UndecodableLine}
            \cup {DestinationLine[f] : f \in Files}

\* the exit codes the process may end with by itself
ExitCodes == {0, 1}

\* the returncode of a process ended by terminate()
TerminatedCode == 0 - 15

\* the one process handle of the model
Handle == "process"

\* VideoDownloader.__init__ with the default output_dir, _create_temp_dir done
DownloaderInit ==
    /\ is_shutting_down = FALSE
    /\ output_dir = ""
    /\ yt_dlp_path = None
    /\ temp_dir_exists = TRUE
    /\ yt_dlp_file_exists = FALSE
    /\ cleanup_timer_active = FALSE
    /\ active_processes = {}
    /\ download_process_pids = {}
    /\ cleanup_pc = "idle"
    /\ pc = "idle"
    /\ output_filename = None
    /\ complete_output = <<>>
    /\ events = <<>>
    /\ ret = <<>>
    /\ return_site = "none"
    /\ proc_status = "none"
    /\ proc_returncode = {}
    /\ written = <<>>
    /\ nread = 0
    /\ requested_dir = ""
    /\ yt_dlp_status = "none"
    /\ init_pc = "idle"
    /\ cleanup_again = FALSE
    /\ cleanup_log = {}
    /\ running = {}
    /\ attempted = {}
    /\ pid_attempted = {}
    /\ stubborn = {}
    /\ unreaped = {}
    /\ sent = [p \in Procs |-> <<>>]

(***************************************************************************)
(* Initial state: DownloadController.__init__ and VideoDownloader.__init__.*)
(***************************************************************************)
ControllerInit ==
    /\ download_queue = <<>>
    /\ current_downloads = {}
    /\ max_concurrent = InitMaxConcurrent
    /\ pool_max_threads = InitMaxConcurrent
    /\ pool_tasks = [u \in URLs |-> 0]
    /\ op = "__init__"
    /\ op_arg = {}
    /\ emitted = <<>>
    /\ started = <<>>
    /\ cleared = {}
    /\ rejected = {}

\* clean_url_list has not been called
ValidatorIdle ==
    /\ url_input = [kind |-> "list", value |-> <<>>]
    /\ cleaned_urls = <<>>
    /\ validator_pc = "ready"

\* MainWindow.__init__, lines 71-80
MainWindowInit ==
    /\ window_download_queue = <<>>
    /\ window_current_downloads = {}
    /\ window_download_widgets = {}
    /\ window_max_thread_count = 3

Init ==
    /\ ControllerInit
    /\ DownloaderInit
    /\ ValidatorIdle
    /\ MainWindowInit

(***************************************************************************)
(* The handlers.                                                           *)
(***************************************************************************)
\* add_urls: "return urls"
add_urls_return(urls) == urls

\* DownloadController.add_urls(urls)
add_urls(urls) ==
    LET q1 == AppendNewUrls(urls, download_queue, current_downloads)
        r  == ProcessQueue(q1, current_downloads, max_concurrent)
    IN /\ download_queue' = r.queue
       /\ current_downloads' = r.current
       /\ pool_tasks' = StartTasks(pool_tasks, r.started)
       /\ started' = r.started
       /\ emitted' = <<QueueUpdated(q1)>> \o r.emitted
       /\ cleared' = cleared \ Range(q1)
       /\ rejected' = SkipReasons(urls, download_queue, download_queue, current_downloads)
       /\ op' = "add_urls"
       /\ op_arg' = {}
       /\ UNCHANGED <<max_concurrent, pool_max_threads>>
       /\ UNCHANGED dvars
    /\ UNCHANGED validator_vars

\* a job's download_completed(url, filename) reaches _on_download_completed
on_download_completed(url) ==
    /\ pool_tasks[url] > 0
    /\ LET r == AfterCompleted(url, download_queue, current_downloads, max_concurrent)
       IN /\ download_queue' = r.queue
          /\ current_downloads' = r.current
          /\ pool_tasks' = StartTasks([pool_tasks EXCEPT ![url] = @ - 1], r.started)
          /\ started' = r.started
          /\ emitted' = r.emitted
    /\ op' = "_on_download_completed"
    /\ op_arg' = {url}
    /\ rejected' = {}
    /\ UNCHANGED <<max_concurrent, pool_max_threads, cleared>>
    /\ UNCHANGED dvars
    /\ UNCHANGED validator_vars

\* a job's download_error(url, message) reaches _on_download_error
on_download_error(url) ==
    /\ pool_tasks[url] > 0
    /\ LET r == AfterError(url, download_queue, current_downloads, max_concurrent)
       IN /\ download_queue' = r.queue
          /\ current_downloads' = r.current
          /\ pool_tasks' = StartTasks([pool_tasks EXCEPT ![url] = @ - 1], r.started)
          /\ started' = r.started
          /\ emitted' = r.emitted
    /\ op' = "_on_download_error"
    /\ op_arg' = {url}
    /\ rejected' = {}
    /\ UNCHANGED <<max_concurrent, pool_max_threads, cleared>>
    /\ UNCHANGED dvars
    /\ UNCHANGED validator_vars

\* initialize_yt_dlp fails: download_error("System", message) reaches
\* _on_download_error, which finds no such URL in current_downloads
on_system_error ==
    /\ LET r == AfterError(System, download_queue, current_downloads, max_concurrent)
       IN /\ download_queue' = r.queue
          /\ current_downloads' = r.current
          /\ pool_tasks' = StartTasks(pool_tasks, r.started)
          /\ started' = r.started
          /\ emitted' = r.emitted
    /\ op' = "_on_download_error"
    /\ op_arg' = {System}
    /\ rejected' = {}
    /\ UNCHANGED <<max_concurrent, pool_max_threads, cleared>>
    /\ UNCHANGED dvars
    /\ UNCHANGED validator_vars
    /\ UNCHANGED window_vars

\* faulty variant of clear_queue that does not report the emptied queue
clear_queue_unnotified ==
    /\ download_queue' = ClearedQueue(download_queue)
    /\ emitted' = <<>>
    /\ cleared' = cleared \cup (Range(download_queue) \ Range(download_queue'))
    /\ started' = <<>>
    /\ op' = "clear_queue"
    /\ op_arg' = {}
    /\ rejected' = {}
    /\ UNCHANGED <<current_downloads, max_concurrent, pool_max_threads, pool_tasks>>
    /\ UNCHANGED dvars
    /\ UNCHANGED validator_vars
    /\ UNCHANGED window_vars

\* DownloadController.clear_queue()
clear_queue ==
    /\ download_queue' = ClearedQueue(download_queue)
    /\ emitted' = <<QueueUpdated(download_queue')>>
    /\ cleared' = cleared \cup (Range(download_queue) \ Range(download_queue'))
    /\ started' = <<>>
    /\ op' = "clear_queue"
    /\ op_arg' = {}
    /\ rejected' = {}
    /\ UNCHANGED <<current_downloads, max_concurrent, pool_max_threads, pool_tasks>>
    /\ UNCHANGED dvars
    /\ UNCHANGED validator_vars
    /\ UNCHANGED window_vars

\* faulty variant of set_max_concurrent that fills the free slots at once
set_max_concurrent_admitting(count) ==
    LET r == ProcessQueue(download_queue, current_downloads, ClampCount(count))
    IN /\ max_concurrent' = ClampCount(count)
       /\ pool_max_threads' = max_concurrent'
       /\ download_queue' = r.queue
       /\ current_downloads' = r.current
       /\ pool_tasks' = StartTasks(pool_tasks, r.started)
       /\ emitted' = r.emitted
       /\ started' = r.started
       /\ op' = "set_max_concurrent"
       /\ op_arg' = {count}
       /\ rejected' = {}
       /\ UNCHANGED cleared
       /\ UNCHANGED dvars
    /\ UNCHANGED validator_vars

\* DownloadController.set_max_concurrent(count)
set_max_concurrent(count) ==
    /\ max_concurrent' = ClampCount(count)
    /\ pool_max_threads' = max_concurrent'
    /\ emitted' = <<>>
    /\ started' = <<>>
    /\ op' = "set_max_concurrent"
    /\ op_arg' = {count}
    /\ rejected' = {}
    /\ UNCHANGED <<download_queue, current_downloads, pool_tasks, cleared>>
    /\ UNCHANGED dvars
    /\ UNCHANGED validator_vars

Enqueue == \E urls \in Batches : add_urls(urls) /\ UNCHANGED window_vars

Completed ==
    \E url \in URLs : on_download_completed(url) /\ UNCHANGED window_vars

Failed == \E url \in URLs : on_download_error(url) /\ UNCHANGED window_vars

SetLimit ==
    \E count \in Counts : set_max_concurrent(count) /\ UNCHANGED window_vars

Next ==
    \/ Enqueue
    \/ Completed
    \/ Failed
    \/ on_system_error
    \/ clear_queue
    \/ SetLimit

Spec == Init /\ [][Next]_vars

\* every DownloadTask handed to the pool ends: its download_video emits
\* download_completed or download_error, and the slot connected to the
\* signal runs
JobsEnd ==
    \A url \in URLs :
        WF_vars(/\ on_download_completed(url) \/ on_download_error(url)
                /\ UNCHANGED window_vars)

FairSpec == Spec /\ JobsEnd

TypeOK ==
    /\ download_queue \in Seq(URLs)
    /\ current_downloads \subseteq URLs
    /\ max_concurrent \in Int
    /\ pool_max_threads \in Int
    /\ pool_tasks \in [URLs -> Nat]

(***************************************************************************)
(* VideoDownloader.download_video: one call at a time, run by a pool       *)
(* thread while the main thread may run cleanup, set_output_dir and the    *)
(* timer's check_processes, and the yt-dlp process writes and exits.  The  *)
(* URL of the call tags every signal the call emits and is left out.       *)
(***************************************************************************)
\* signals of VideoDownloader, with their second argument
Started == [sig |-> "download_started", detail |-> ""]
Log(line) == [sig |-> "download_log", detail |-> line]
CompletedEvent(filename) == [sig |-> "download_completed", detail |-> filename]
ErrorEvent(message) == [sig |-> "download_error", detail |-> message]

NoOutputDirMsg == "No output directory has been selected"
NoYtDlpMsg == "yt-dlp is not available"
GenericErrorMsg == "Download error. Check the logs for more details."
\* str(e) of an exception raised by subprocess.Popen
SpawnExceptionMsg == "[Errno 8] Exec format error"
\* str(e) of an exception raised by stdout.readline() or stdout.read(), and
\* the log lines download_video writes for it
ReadExceptionMsg == "'utf-8' codec can't decode byte"
ReadErrorLog == "Error reading output: 'utf-8' codec can't decode byte"
FinalErrorLog == "Error processing final output: 'utf-8' codec can't decode byte"
FallbackName == "File downloaded"

\* line.strip()
Strip(line) == IF line = BlankLine THEN "" ELSE line

\* "[download] Destination:" in line
HasMarker(line) == \E f \in Files : line = DestinationLine[f]

\* line.split("Destination:")[1].strip()
SplitDestination(line) == CHOOSE f \in Files : line = DestinationLine[f]

\* "not output_filename"
NoFilename(filename) == filename = None \/ filename = ""

\* faulty variant of ExtractFilename that returns the last destination
ExtractLastFilename(output) ==
    LET marked == {i \in 1..Len(output) : HasMarker(output[i])}
    IN IF marked = {}
       THEN FallbackName
       ELSE SplitDestination(output[CHOOSE i \in marked : \A j \in marked : j <= i])

\* _extract_filename_from_output: the first line with the marker
ExtractFilename(output) ==
    LET marked == {i \in 1..Len(output) : HasMarker(output[i])}
    IN IF marked = {}
       THEN FallbackName
       ELSE SplitDestination(output[CHOOSE i \in marked : \A j \in marked : i <= j])

\* "not self.output_dir"
OutputDirMissing(dir) == dir = ""

\* faulty variant of YtDlpUnavailable that trusts the path without looking
YtDlpUnavailablePathOnly(path, exists) == path = None

\* "not self.yt_dlp_path or not os.path.exists(self.yt_dlp_path)"
YtDlpUnavailable(path, exists) == path = None \/ ~exists

\* process.poll()
Poll == proc_returncode

\* what the process has written and download_video has not read
Remaining == SubSeq(written, nread + 1, Len(written))

\* faulty variant of ExitSuccess that treats every exit as success
ExitSuccessAnyCode(returncode) == returncode # {}

\* "returncode == 0"
ExitSuccess(returncode) == returncode = {0}

\* faulty variant of FinishEvents that reports failures by the return value only
FinishEventsSilentFailure(returncode, filename) ==
    IF ExitSuccess(returncode)
    THEN <<CompletedEvent(IF NoFilename(filename) THEN FallbackName ELSE filename)>>
    ELSE <<>>

\* download_video, after the return code is known: the terminal signal
FinishEvents(returncode, filename) ==
    IF ExitSuccess(returncode)
    THEN <<CompletedEvent(IF NoFilename(filename) THEN FallbackName ELSE filename)>>
    ELSE <<ErrorEvent(GenericErrorMsg)>>

\* process.terminate(): a running process ends with the signal's code
AfterTerminate(status, returncode) ==
    IF status = "running"
    THEN [status |-> "exited", returncode |-> {TerminatedCode}]
    ELSE [status |-> status, returncode |-> returncode]

\* a return statement of download_video
Return(value, site) ==
    /\ pc' = "idle"
    /\ ret' = <<value>>
    /\ return_site' = site

\* lines 266-269: the call and its shutdown check
dv_enter ==
    /\ pc = "idle"
    /\ output_filename' = None
    /\ complete_output' = <<>>
    /\ events' = <<>>
    /\ IF is_shutting_down
       THEN Return(FALSE, "268")
       ELSE pc' = "emit_started" /\ ret' = <<>> /\ return_site' = "none"
    /\ UNCHANGED <<is_shutting_down, config_vars, cleanup_timer_active,
                   registry_vars, cleanup_pc, proc_vars>>
    /\ UNCHANGED call_vars
    /\ UNCHANGED lifecycle_vars
    /\ UNCHANGED cvars
    /\ UNCHANGED validator_vars
    /\ UNCHANGED window_vars

\* lines 272-276: download_started, then the output directory
dv_check_output_dir ==
    /\ pc = "emit_started"
    /\ IF OutputDirMissing(output_dir)
       THEN /\ events' = <<Started, ErrorEvent(NoOutputDirMsg)>>
            /\ Return(FALSE, "276")
       ELSE /\ events' = <<Started>>
            /\ pc' = "check_yt_dlp"
            /\ UNCHANGED <<ret, return_site>>
    /\ UNCHANGED <<output_filename, complete_output>>
    /\ UNCHANGED <<is_shutting_down, config_vars, cleanup_timer_active,
                   registry_vars, cleanup_pc, proc_vars>>
    /\ UNCHANGED call_vars
    /\ UNCHANGED lifecycle_vars
    /\ UNCHANGED cvars
    /\ UNCHANGED validator_vars
    /\ UNCHANGED window_vars

\* lines 278-280: the executable
dv_check_yt_dlp ==
    /\ pc = "check_yt_dlp"
    /\ IF YtDlpUnavailable(yt_dlp_path, yt_dlp_file_exists)
       THEN /\ events' = Append(events, ErrorEvent(NoYtDlpMsg))
            /\ Return(FALSE, "280")
       ELSE /\ pc' = "spawn"
            /\ UNCHANGED <<events, ret, return_site>>
    /\ UNCHANGED <<output_filename, complete_output>>
    /\ UNCHANGED <<is_shutting_down, config_vars, cleanup_timer_active,
                   registry_vars, cleanup_pc, proc_vars>>
    /\ UNCHANGED call_vars
    /\ UNCHANGED lifecycle_vars
    /\ UNCHANGED cvars
    /\ UNCHANGED validator_vars
    /\ UNCHANGED window_vars

\* lines 282-318: subprocess.Popen returns a running process
dv_spawn ==
    /\ pc = "spawn"
    /\ proc_status' = "running"
    /\ proc_returncode' = {}
    /\ written' = <<>>
    /\ nread' = 0
    /\ pc' = "register"
    /\ UNCHANGED <<output_filename, complete_output, events, ret, return_site>>
    /\ UNCHANGED <<is_shutting_down, config_vars, cleanup_timer_active,
                   registry_vars, cleanup_pc>>
    /\ UNCHANGED call_vars
    /\ UNCHANGED lifecycle_vars
    /\ UNCHANGED cvars
    /\ UNCHANGED validator_vars
    /\ UNCHANGED window_vars

\* lines 282-318, 388-390: subprocess.Popen raises
dv_spawn_raises ==
    /\ pc = "spawn"
    /\ events' = Append(events, ErrorEvent(SpawnExceptionMsg))
    /\ Return(FALSE, "390")
    /\ UNCHANGED <<output_filename, complete_output>>
    /\ UNCHANGED <<is_shutting_down, config_vars, cleanup_timer_active,
                   registry_vars, cleanup_pc, proc_vars>>
    /\ UNCHANGED call_vars
    /\ UNCHANGED lifecycle_vars
    /\ UNCHANGED cvars
    /\ UNCHANGED validator_vars
    /\ UNCHANGED window_vars

\* lines 321-326: the process enters the tracking collections
dv_register ==
    /\ pc = "register"
    /\ active_processes' = active_processes \cup {Handle}
    /\ download_process_pids' = download_process_pids \cup {Handle}
    /\ pc' = "loop"
    /\ UNCHANGED <<output_filename, complete_output, events, ret, return_site>>
    /\ UNCHANGED <<is_shutting_down, config_vars, cleanup_timer_active,
                   cleanup_pc, proc_vars>>
    /\ UNCHANGED call_vars
    /\ UNCHANGED lifecycle_vars
    /\ UNCHANGED cvars
    /\ UNCHANGED validator_vars
    /\ UNCHANGED window_vars

\* faulty variant of dv_loop_shutdown_check that does not look at the flag
dv_loop_no_shutdown_check ==
    /\ pc = "loop"
    /\ pc' = "poll"
    /\ UNCHANGED <<proc_status, proc_returncode, ret, return_site>>
    /\ UNCHANGED <<written, nread>>
    /\ UNCHANGED <<output_filename, complete_output, events>>
    /\ UNCHANGED <<is_shutting_down, config_vars, cleanup_timer_active,
                   registry_vars, cleanup_pc>>
    /\ UNCHANGED call_vars
    /\ UNCHANGED lifecycle_vars
    /\ UNCHANGED cvars
    /\ UNCHANGED validator_vars
    /\ UNCHANGED window_vars

\* lines 329-333: top of the read loop, the shutdown check
dv_loop_shutdown_check ==
    /\ pc = "loop"
    /\ IF is_shutting_down
       THEN /\ proc_status' = AfterTerminate(proc_status, proc_returncode).status
            /\ proc_returncode' =
                  AfterTerminate(proc_status, proc_returncode).returncode
            /\ Return(FALSE, "333")
       ELSE /\ pc' = "poll"
            /\ UNCHANGED <<proc_status, proc_returncode, ret, return_site>>
    /\ UNCHANGED <<written, nread>>
    /\ UNCHANGED <<output_filename, complete_output, events>>
    /\ UNCHANGED <<is_shutting_down, config_vars, cleanup_timer_active,
                   registry_vars, cleanup_pc>>
    /\ UNCHANGED call_vars
    /\ UNCHANGED lifecycle_vars
    /\ UNCHANGED cvars
    /\ UNCHANGED validator_vars
    /\ UNCHANGED window_vars

\* lines 335-337: leave the loop once the process has exited
dv_loop_poll ==
    /\ pc = "poll"
    /\ pc' = IF Poll # {} THEN "fallback" ELSE "readline"
    /\ UNCHANGED <<output_filename, complete_output, events, ret, return_site>>
    /\ UNCHANGED <<is_shutting_down, config_vars, cleanup_timer_active,
                   registry_vars, cleanup_pc, proc_vars>>
    /\ UNCHANGED call_vars
    /\ UNCHANGED lifecycle_vars
    /\ UNCHANGED cvars
    /\ UNCHANGED validator_vars
    /\ UNCHANGED window_vars

\* lines 340-353: readline returns the next line, or "" at end of file; it
\* blocks while the process runs and has written nothing new
dv_readline ==
    /\ pc = "readline"
    /\ \/ /\ nread < Len(written)
          /\ written[nread + 1] # UndecodableLine
          /\ LET line == Strip(written[nread + 1])
             IN /\ nread' = nread + 1
                /\ IF line # ""
                   THEN /\ complete_output' = Append(complete_output, line)
                        /\ events' = Append(events, Log(line))
                        /\ output_filename' = IF HasMarker(line)
                                              THEN SplitDestination(line)
                                              ELSE output_filename
                   ELSE UNCHANGED <<complete_output, events, output_filename>>
       \/ /\ nread = Len(written)
          /\ proc_status = "exited"
          /\ UNCHANGED <<nread, complete_output, events, output_filename>>
    /\ pc' = "loop"
    /\ UNCHANGED <<ret, return_site>>
    /\ UNCHANGED <<proc_status, proc_returncode, written>>
    /\ UNCHANGED <<is_shutting_down, config_vars, cleanup_timer_active,
                   registry_vars, cleanup_pc>>
    /\ UNCHANGED call_vars
    /\ UNCHANGED lifecycle_vars
    /\ UNCHANGED cvars
    /\ UNCHANGED validator_vars
    /\ UNCHANGED window_vars

\* lines 340, 354-356: readline raises on bytes it cannot decode; the
\* exception is logged and ends the loop.  Whether the stream has moved past
\* the bytes is up to the decoder.
dv_readline_raises ==
    /\ pc = "readline"
    /\ nread < Len(written)
    /\ written[nread + 1] = UndecodableLine
    /\ nread' \in {nread, nread + 1}
    /\ events' = Append(events, Log(ReadErrorLog))
    /\ pc' = "fallback"
    /\ UNCHANGED <<output_filename, complete_output, ret, return_site>>
    /\ UNCHANGED <<proc_status, proc_returncode, written>>
    /\ UNCHANGED <<is_shutting_down, config_vars, cleanup_timer_active,
                   registry_vars, cleanup_pc>>
    /\ UNCHANGED call_vars
    /\ UNCHANGED lifecycle_vars
    /\ UNCHANGED cvars
    /\ UNCHANGED validator_vars
    /\ UNCHANGED window_vars

\* lines 360-369: with no filename yet, read the rest of the output (read()
\* returns at end of file, or raises on bytes it cannot decode) and extract
\* the filename from all of it
dv_fallback ==
    /\ pc = "fallback"
    /\ IF NoFilename(output_filename)
       THEN \/ /\ proc_status = "exited"
               /\ UndecodableLine \notin Range(Remaining)
               /\ complete_output' = complete_output \o Remaining
               /\ nread' = Len(written)
               /\ output_filename' = ExtractFilename(complete_output')
               /\ UNCHANGED events
            \/ /\ UndecodableLine \in Range(Remaining)
               /\ events' = Append(events, Log(FinalErrorLog))
               /\ UNCHANGED <<complete_output, nread, output_filename>>
       ELSE UNCHANGED <<complete_output, nread, output_filename, events>>
    /\ pc' = "finish"
    /\ UNCHANGED <<ret, return_site>>
    /\ UNCHANGED <<proc_status, proc_returncode, written>>
    /\ UNCHANGED <<is_shutting_down, config_vars, cleanup_timer_active,
                   registry_vars, cleanup_pc>>
    /\ UNCHANGED call_vars
    /\ UNCHANGED lifecycle_vars
    /\ UNCHANGED cvars
    /\ UNCHANGED validator_vars
    /\ UNCHANGED window_vars

\* lines 371-386: the return code, the tracking collections, the terminal signal
dv_finish ==
    /\ pc = "finish"
    /\ active_processes' = active_processes \ {Handle}
    /\ download_process_pids' = download_process_pids \ {Handle}
    /\ events' = events \o FinishEvents(Poll, output_filename)
    /\ output_filename' = IF ExitSuccess(Poll) /\ NoFilename(output_filename)
                          THEN FallbackName
                          ELSE output_filename
    /\ IF ExitSuccess(Poll) THEN Return(TRUE, "383") ELSE Return(FALSE, "386")
    /\ UNCHANGED complete_output
    /\ UNCHANGED <<is_shutting_down, config_vars, cleanup_timer_active,
                   cleanup_pc, proc_vars>>
    /\ UNCHANGED call_vars
    /\ UNCHANGED lifecycle_vars
    /\ UNCHANGED cvars
    /\ UNCHANGED validator_vars
    /\ UNCHANGED window_vars

(***************************************************************************)
(* The yt-dlp process.                                                     *)
(***************************************************************************)
proc_write(line) ==
    /\ proc_status = "running"
    /\ Len(written) < MaxLines
    /\ written' = Append(written, line)
    /\ UNCHANGED <<proc_status, proc_returncode, nread>>
    /\ UNCHANGED <<is_shutting_down, config_vars, cleanup_timer_active,
                   registry_vars, cleanup_pc, job_vars>>
    /\ UNCHANGED call_vars
    /\ UNCHANGED lifecycle_vars
    /\ UNCHANGED cvars
    /\ UNCHANGED validator_vars
    /\ UNCHANGED window_vars

proc_exit(code) ==
    /\ proc_status = "running"
    /\ proc_status' = "exited"
    /\ proc_returncode' = {code}
    /\ UNCHANGED <<written, nread>>
    /\ UNCHANGED <<is_shutting_down, config_vars, cleanup_timer_active,
                   registry_vars, cleanup_pc, job_vars>>
    /\ UNCHANGED call_vars
    /\ UNCHANGED lifecycle_vars
    /\ UNCHANGED cvars
    /\ UNCHANGED validator_vars
    /\ UNCHANGED window_vars

(***************************************************************************)
(* VideoDownloader's other methods; those of the main thread do not run    *)
(* while cleanup, itself on the main thread, is under way.                 *)
(***************************************************************************)
MainThreadFree == cleanup_pc \in {"idle", "done"}

\* faulty variant of set_output_dir that stores the directory whatever the flag
set_output_dir_unguarded(directory) ==
    /\ MainThreadFree
    /\ output_dir' = directory
    /\ requested_dir' = directory
    /\ UNCHANGED <<yt_dlp_path, temp_dir_exists, yt_dlp_file_exists>>
    /\ UNCHANGED <<is_shutting_down, cleanup_timer_active, registry_vars,
                   cleanup_pc, job_vars, proc_vars>>
    /\ UNCHANGED <<yt_dlp_status, init_pc, cleanup_again, cleanup_log>>
    /\ UNCHANGED lifecycle_vars
    /\ UNCHANGED cvars
    /\ UNCHANGED validator_vars
    /\ UNCHANGED window_vars

\* set_output_dir(directory)
set_output_dir(directory) ==
    /\ MainThreadFree
    /\ output_dir' = IF is_shutting_down THEN output_dir ELSE directory
    /\ requested_dir' = directory
    /\ UNCHANGED <<yt_dlp_path, temp_dir_exists, yt_dlp_file_exists>>
    /\ UNCHANGED <<is_shutting_down, cleanup_timer_active, registry_vars,
                   cleanup_pc, job_vars, proc_vars>>
    /\ UNCHANGED <<yt_dlp_status, init_pc, cleanup_again, cleanup_log>>
    /\ UNCHANGED lifecycle_vars
    /\ UNCHANGED cvars
    /\ UNCHANGED validator_vars
    /\ UNCHANGED window_vars

\* initialize_yt_dlp, lines 62-79: past the flag, the path is set and the
\* status "downloading" is signalled before anything is fetched
initialize_yt_dlp_enter ==
    /\ init_pc = "idle"
    /\ ~is_shutting_down
    /\ yt_dlp_path' = "yt-dlp"
    /\ yt_dlp_status' = "downloading"
    /\ init_pc' = "downloading"
    /\ UNCHANGED <<output_dir, temp_dir_exists, yt_dlp_file_exists>>
    /\ UNCHANGED <<is_shutting_down, cleanup_timer_active, registry_vars,
                   cleanup_pc, job_vars, proc_vars>>
    /\ UNCHANGED <<requested_dir, cleanup_again, cleanup_log>>
    /\ UNCHANGED lifecycle_vars
    /\ UNCHANGED cvars
    /\ UNCHANGED validator_vars
    /\ UNCHANGED window_vars

\* the outcomes of initialize_yt_dlp, lines 83-158, as <<status, file>>:
\* the status signalled last and whether open(yt_dlp_path, 'wb') was reached
\*   lines 87-92, 104-109, 116-118 : failure before the file is opened
\*   lines 124-125                 : the flag is seen between two chunks
\*   lines 126-137                 : failure while the chunks are written
\*   lines 139-150                 : success
InitializeOutcomes(shutting_down, dir_exists) ==
    {<<"error", FALSE>>}
    \cup (IF dir_exists
          THEN {<<"error", TRUE>>, <<"ready", TRUE>>}
               \cup (IF shutting_down THEN {<<"downloading", TRUE>>} ELSE {})
          ELSE {})

\* initialize_yt_dlp, lines 81-158: the fetch, the write and the return
initialize_yt_dlp_return ==
    /\ init_pc = "downloading"
    /\ \E o \in InitializeOutcomes(is_shutting_down, temp_dir_exists) :
          /\ yt_dlp_status' = o[1]
          /\ yt_dlp_file_exists' = (yt_dlp_file_exists \/ o[2])
    /\ init_pc' = "idle"
    /\ UNCHANGED <<output_dir, yt_dlp_path, temp_dir_exists>>
    /\ UNCHANGED <<is_shutting_down, cleanup_timer_active, registry_vars,
                   cleanup_pc, job_vars, proc_vars>>
    /\ UNCHANGED <<requested_dir, cleanup_again, cleanup_log>>
    /\ UNCHANGED lifecycle_vars
    /\ UNCHANGED cvars
    /\ UNCHANGED validator_vars
    /\ UNCHANGED window_vars

\* start_cleanup_timer
start_cleanup_timer ==
    /\ MainThreadFree
    /\ cleanup_timer_active' = TRUE
    /\ UNCHANGED <<is_shutting_down, config_vars, registry_vars, cleanup_pc,
                   job_vars, proc_vars>>
    /\ UNCHANGED call_vars
    /\ UNCHANGED lifecycle_vars
    /\ UNCHANGED cvars
    /\ UNCHANGED validator_vars
    /\ UNCHANGED window_vars

\* faulty variant of check_processes that forgets the process whether or not
\* it has exited
check_processes_forgetful ==
    /\ MainThreadFree
    /\ cleanup_timer_active
    /\ IF is_shutting_down
       THEN UNCHANGED registry_vars
       ELSE /\ active_processes' = active_processes \ {Handle}
            /\ download_process_pids' = download_process_pids \ {Handle}
    /\ UNCHANGED <<is_shutting_down, config_vars, cleanup_timer_active,
                   cleanup_pc, job_vars, proc_vars>>
    /\ UNCHANGED call_vars
    /\ UNCHANGED lifecycle_vars
    /\ UNCHANGED cvars
    /\ UNCHANGED validator_vars
    /\ UNCHANGED window_vars

\* check_processes, the timer's slot: forget the processes that have exited
check_processes ==
    /\ MainThreadFree
    /\ cleanup_timer_active
    /\ IF is_shutting_down \/ proc_status # "exited"
       THEN UNCHANGED registry_vars
       ELSE /\ active_processes' = active_processes \ {Handle}
            /\ download_process_pids' = download_process_pids \ {Handle}
    /\ UNCHANGED <<is_shutting_down, config_vars, cleanup_timer_active,
                   cleanup_pc, job_vars, proc_vars>>
    /\ UNCHANGED call_vars
    /\ UNCHANGED lifecycle_vars
    /\ UNCHANGED cvars
    /\ UNCHANGED validator_vars
    /\ UNCHANGED window_vars

\* cleanup, lines 177-179: the flag
cleanup_begin ==
    /\ MainThreadFree
    /\ is_shutting_down' = TRUE
    /\ cleanup_pc' = "stop_timer"
    /\ cleanup_again' = (cleanup_again \/ cleanup_pc = "done")
    /\ cleanup_log' = {}
    /\ attempted' = {}
    /\ pid_attempted' = {}
    /\ UNCHANGED <<config_vars, cleanup_timer_active, registry_vars,
                   job_vars, proc_vars>>
    /\ UNCHANGED <<requested_dir, yt_dlp_status, init_pc>>
    /\ UNCHANGED <<running, signal_vars>>
    /\ UNCHANGED cvars
    /\ UNCHANGED validator_vars
    /\ UNCHANGED window_vars

\* faulty variant of cleanup_stop_timer that leaves the timer running
cleanup_keep_timer ==
    /\ cleanup_pc = "stop_timer"
    /\ cleanup_pc' = "terminate"
    /\ UNCHANGED <<is_shutting_down, config_vars, cleanup_timer_active,
                   registry_vars, job_vars, proc_vars>>
    /\ UNCHANGED call_vars
    /\ UNCHANGED lifecycle_vars
    /\ UNCHANGED cvars
    /\ UNCHANGED validator_vars
    /\ UNCHANGED window_vars

\* cleanup, lines 181-183: the timer, stopped once the flag is set
cleanup_stop_timer ==
    /\ cleanup_pc = "stop_timer"
    /\ cleanup_timer_active' = FALSE
    /\ cleanup_pc' = "terminate"
    /\ UNCHANGED <<is_shutting_down, config_vars, registry_vars,
                   job_vars, proc_vars>>
    /\ UNCHANGED call_vars
    /\ UNCHANGED lifecycle_vars
    /\ UNCHANGED cvars
    /\ UNCHANGED validator_vars
    /\ UNCHANGED window_vars

\* faulty variant of cleanup_terminate that ends the process whether or not
\* it is tracked
cleanup_terminate_untracked ==
    /\ cleanup_pc = "terminate"
    /\ proc_status' = AfterTerminate(proc_status, proc_returncode).status
    /\ proc_returncode' = AfterTerminate(proc_status, proc_returncode).returncode
    /\ active_processes' = {}
    /\ download_process_pids' = {}
    /\ cleanup_pc' = "remove"
    /\ cleanup_log' =
          cleanup_log \cup
             (IF proc_status = "running" THEN {"Terminated process"} ELSE {})
    /\ UNCHANGED <<written, nread>>
    /\ UNCHANGED <<is_shutting_down, config_vars, cleanup_timer_active, job_vars>>
    /\ UNCHANGED <<requested_dir, yt_dlp_status, init_pc, cleanup_again>>
    /\ UNCHANGED lifecycle_vars
    /\ UNCHANGED cvars
    /\ UNCHANGED validator_vars
    /\ UNCHANGED window_vars

\* cleanup, line 186: terminate_processes ends every tracked process that
\* still runs and empties the tracking collections
cleanup_terminate ==
    /\ cleanup_pc = "terminate"
    /\ IF Handle \in active_processes \cup download_process_pids
       THEN /\ proc_status' = AfterTerminate(proc_status, proc_returncode).status
            /\ proc_returncode' =
                  AfterTerminate(proc_status, proc_returncode).returncode
       ELSE UNCHANGED <<proc_status, proc_returncode>>
    /\ active_processes' = {}
    /\ download_process_pids' = {}
    /\ cleanup_pc' = "remove"
    /\ cleanup_log' =
          cleanup_log \cup
             (IF Handle \in active_processes /\ proc_status = "running"
              THEN {"Terminated process"} ELSE {})
    /\ UNCHANGED <<written, nread>>
    /\ UNCHANGED <<is_shutting_down, config_vars, cleanup_timer_active, job_vars>>
    /\ UNCHANGED <<requested_dir, yt_dlp_status, init_pc, cleanup_again>>
    /\ UNCHANGED lifecycle_vars
    /\ UNCHANGED cvars
    /\ UNCHANGED validator_vars
    /\ UNCHANGED window_vars

\* faulty variant of cleanup_remove that lowers the flag when it is done
cleanup_remove_and_reopen ==
    /\ cleanup_pc = "remove"
    /\ temp_dir_exists' = FALSE
    /\ yt_dlp_file_exists' = FALSE
    /\ is_shutting_down' = FALSE
    /\ cleanup_pc' = "done"
    /\ UNCHANGED <<output_dir, yt_dlp_path>>
    /\ UNCHANGED <<cleanup_timer_active, registry_vars, job_vars, proc_vars>>
    /\ UNCHANGED <<requested_dir, yt_dlp_status, init_pc, cleanup_again, cleanup_log>>
    /\ UNCHANGED lifecycle_vars
    /\ UNCHANGED cvars
    /\ UNCHANGED validator_vars
    /\ UNCHANGED window_vars

\* cleanup, lines 189-196: rmtree removes the temporary directory and the
\* executable in it, or fails and leaves them
cleanup_remove ==
    /\ cleanup_pc = "remove"
    /\ \/ /\ temp_dir_exists' = FALSE
          /\ yt_dlp_file_exists' = FALSE
          /\ cleanup_log' =
                cleanup_log \cup
                   (IF temp_dir_exists THEN {"Temporary directory removed"} ELSE {})
       \/ /\ temp_dir_exists
          /\ UNCHANGED <<temp_dir_exists, yt_dlp_file_exists>>
          /\ cleanup_log' = cleanup_log \cup {"Error during cleanup"}
    /\ cleanup_pc' = "done"
    /\ UNCHANGED <<output_dir, yt_dlp_path>>
    /\ UNCHANGED <<is_shutting_down, cleanup_timer_active, registry_vars,
                   job_vars, proc_vars>>
    /\ UNCHANGED <<requested_dir, yt_dlp_status, init_pc, cleanup_again>>
    /\ UNCHANGED lifecycle_vars
    /\ UNCHANGED cvars
    /\ UNCHANGED validator_vars
    /\ UNCHANGED window_vars

SetOutputDir == \E directory \in {"", SomeDir} : set_output_dir(directory)

ProcWrite == \E line \in Lines : proc_write(line)

ProcExit == \E code \in ExitCodes : proc_exit(code)

JobNext ==
    \/ dv_enter
    \/ dv_check_output_dir
    \/ dv_check_yt_dlp
    \/ dv_spawn
    \/ dv_spawn_raises
    \/ dv_register
    \/ dv_loop_shutdown_check
    \/ dv_loop_poll
    \/ dv_readline
    \/ dv_readline_raises
    \/ dv_fallback
    \/ dv_finish
    \/ ProcWrite
    \/ ProcExit
    \/ SetOutputDir
    \/ initialize_yt_dlp_enter
    \/ initialize_yt_dlp_return
    \/ start_cleanup_timer
    \/ check_processes
    \/ cleanup_begin
    \/ cleanup_stop_timer
    \/ cleanup_terminate
    \/ cleanup_remove

JobSpec == Init /\ [][JobNext]_vars

JobTypeOK ==
    /\ is_shutting_down \in BOOLEAN
    /\ output_dir \in {"", SomeDir}
    /\ yt_dlp_path \in {None, "yt-dlp"}
    /\ yt_dlp_file_exists => temp_dir_exists
    /\ active_processes \subseteq {Handle}
    /\ download_process_pids = active_processes
    /\ pc \in {"idle", "emit_started", "check_yt_dlp", "spawn", "register",
               "loop", "poll", "readline", "fallback", "finish"}
    /\ proc_status \in {"none", "running", "exited"}
    /\ (proc_status = "exited") = (proc_returncode # {})
    /\ written \in Seq(Lines)
    /\ Len(written) <= MaxLines
    /\ nread \in 0..Len(written)
    /\ requested_dir \in {"", SomeDir}
    /\ yt_dlp_status \in {"none", "downloading", "ready", "error"}
    /\ init_pc \in {"idle", "downloading"}
    /\ cleanup_again \in BOOLEAN
    /\ cleanup_log \subseteq {"Terminated process", "Temporary directory removed",
                              "Error during cleanup"}

(***************************************************************************)
(* Observations used by the properties.                                    *)
(***************************************************************************)
TerminalOps == {"_on_download_completed", "_on_download_error"}

\* how many all_downloads_completed signals the last handler emitted
AllDoneCount == Cardinality({i \in 1..Len(emitted) : emitted[i] = AllDone})

\* the queue-changed signals the last handler emitted
QueueUpdates == SelectSeq(emitted, LAMBDA e : e.sig = "download_queue_updated")

\* the limit as max(1, n)
AtLeastOne(n) == IF n < 1 THEN 1 ELSE n

(***************************************************************************)
(* C1: the Active Set never exceeds the Concurrency Limit under enqueue    *)
(* and terminal events: it is within the limit after construction, and no  *)
(* step that leaves the limit alone (add_urls, a terminal handler,         *)
(* clear_queue) takes it from within the limit to beyond it.               *)
(***************************************************************************)
C1_ActiveWithinLimit ==
    /\ Cardinality(current_downloads) <= max_concurrent
    /\ [][(max_concurrent' = max_concurrent
           /\ Cardinality(current_downloads) <= max_concurrent)
          => Cardinality(current_downloads') <= max_concurrent']_vars

\* an enqueue filled every slot and left URLs pending
C1_Witness ==
    /\ op = "add_urls"
    /\ started # <<>>
    /\ Cardinality(current_downloads) = max_concurrent
    /\ download_queue # <<>>

(***************************************************************************)
(* C2: no URL is in the Pending Queue and in the Active Set at once.       *)
(***************************************************************************)
C2_PendingActiveDisjoint ==
    Range(download_queue) \cap current_downloads = {}

\* an enqueue offered a URL that was running, while other URLs are pending
C2_Witness ==
    /\ op = "add_urls"
    /\ "active" \in rejected
    /\ download_queue # <<>>
    /\ current_downloads # {}

(***************************************************************************)
(* C3 (as amended): a URL appears at most once across Pending Queue and    *)
(* Active Set, and add_urls appends only URLs that are neither pending nor *)
(* active when it looks at them: the queue it reports before admission is  *)
(* the old queue followed by distinct URLs that were absent from both.     *)
(* A URL can therefore be added again once it has left both, by a terminal *)
(* event or by clear_queue.                                                *)
(***************************************************************************)
AtMostOnce ==
    \A u \in URLs :
        Occurrences(download_queue, u)
            + (IF u \in current_downloads THEN 1 ELSE 0) <= 1

\* the URLs an add_urls step appended: the queue it reported first, minus the
\* queue it started from
AppendedBy(before, reported) ==
    {reported[i] : i \in (Len(before) + 1)..Len(reported)}

IdempotentEnqueueStep ==
    op' = "add_urls" =>
        LET q1 == emitted'[1].payload
        IN /\ IsPrefix(download_queue, q1)
           /\ \A i \in (Len(download_queue) + 1)..Len(q1) :
                /\ q1[i] \notin Range(download_queue)
                /\ q1[i] \notin current_downloads
                /\ Occurrences(q1, q1[i]) = 1

C3_IdempotentEnqueue ==
    /\ []AtMostOnce
    /\ [][IdempotentEnqueueStep]_vars

\* an enqueue offered a URL that was pending and did not append it
C3_Witness ==
    /\ op = "add_urls"
    /\ "pending" \in rejected
    /\ download_queue # <<>>

\* C3 as stated: in addition, a URL that left the Pending Queue without a
\* terminal event (clear_queue dropped it) is not appended by a later add_urls
C3_OnlyAfterTerminal ==
    /\ []AtMostOnce
    /\ [][IdempotentEnqueueStep
          /\ (op' = "add_urls" =>
                AppendedBy(download_queue, emitted'[1].payload) \cap cleared = {})]_vars

(***************************************************************************)
(* C4: clear_queue empties the Pending Queue, leaves the Active Set, the   *)
(* limit and the running jobs alone, starts no job, and emits exactly one  *)
(* queue-changed signal, carrying the empty list.                          *)
(***************************************************************************)
C4_ClearQueueEffect ==
    [][op' = "clear_queue" =>
        /\ download_queue' = <<>>
        /\ current_downloads' = current_downloads
        /\ max_concurrent' = max_concurrent
        /\ pool_max_threads' = pool_max_threads
        /\ pool_tasks' = pool_tasks
        /\ started' = <<>>
        /\ emitted' = <<QueueUpdated(<<>>)>>]_vars

\* clear_queue dropped pending URLs while jobs were running
C4_Witness ==
    /\ op = "clear_queue"
    /\ cleared # {}
    /\ current_downloads # {}
    /\ download_queue = <<>>

(***************************************************************************)
(* C5: the limit is at least 1 in every state and equals the pool's        *)
(* maximum thread count; set_max_concurrent(n) stores max(1, n).           *)
(***************************************************************************)
C5_LimitAtLeastOne ==
    /\ [](max_concurrent >= 1 /\ pool_max_threads = max_concurrent)
    /\ [][op' = "set_max_concurrent" =>
            \A n \in op_arg' : max_concurrent' = AtLeastOne(n)]_vars

\* set_max_concurrent was called with a count below 1 while jobs were running
C5_Witness ==
    /\ op = "set_max_concurrent"
    /\ \E n \in op_arg : n < 1
    /\ max_concurrent = 1
    /\ current_downloads # {}

(***************************************************************************)
(* C6 (as amended): add_urls with n distinct URLs on an idle queue with    *)
(* limit L makes the Active Set the first min(n, L) URLs, started in that  *)
(* order, and the Pending Queue the remaining URLs in their order; two     *)
(* queue-changed signals fire, the first carrying all n URLs and the       *)
(* second exactly the remaining ones.                                      *)
(***************************************************************************)
IdleEnqueueSplit(urls) ==
    LET n == Len(urls)
        k == Min(n, max_concurrent)
    IN /\ current_downloads' = {urls[i] : i \in 1..k}
       /\ started' = SubSeq(urls, 1, k)
       /\ download_queue' = SubSeq(urls, k + 1, n)

C6_IdleEnqueue ==
    [][(op' = "add_urls" /\ download_queue = <<>> /\ current_downloads = {}) =>
        \A urls \in Batches :
            (Distinct(urls) /\ add_urls(urls)) =>
                /\ IdleEnqueueSplit(urls)
                /\ emitted' = <<QueueUpdated(urls), QueueUpdated(download_queue')>>]_vars

\* an enqueue on the idle queue filled every slot and left URLs pending
C6_Witness ==
    /\ op = "add_urls"
    /\ Len(started) = max_concurrent
    /\ current_downloads = Range(started)
    /\ download_queue # <<>>
    /\ emitted = <<QueueUpdated(started \o download_queue), QueueUpdated(download_queue)>>

\* C6 as stated: one queue-changed signal fires, carrying the remaining URLs
C6_OneQueueChangedEvent ==
    [][(op' = "add_urls" /\ download_queue = <<>> /\ current_downloads = {}) =>
        \A urls \in Batches :
            (Distinct(urls) /\ add_urls(urls)) =>
                /\ IdleEnqueueSplit(urls)
                /\ QueueUpdates' = <<QueueUpdated(download_queue')>>]_vars

(***************************************************************************)
(* C7: admission is FIFO.  In every step other than clear_queue the URLs   *)
(* started, in the order started, followed by the URLs still pending, are  *)
(* the old Pending Queue followed by what the step appended; the URLs      *)
(* started are exactly those that entered the Active Set.                  *)
(***************************************************************************)
C7_FifoAdmission ==
    [][op' # "clear_queue" =>
        /\ IsPrefix(download_queue, started' \o download_queue')
        /\ Range(started') = current_downloads' \ current_downloads]_vars

\* a terminal event admitted the oldest pending URL and left a newer one pending
C7_Witness ==
    /\ op \in TerminalOps
    /\ started # <<>>
    /\ download_queue # <<>>

(***************************************************************************)
(* C8: an error event for a running URL removes it from the Active Set,    *)
(* does not put it back into the Pending Queue, and admits the oldest      *)
(* pending URL when that frees a slot; afterwards no slot is free while    *)
(* URLs are pending.                                                       *)
(***************************************************************************)
C8_ErrorIsTerminal ==
    [][op' = "_on_download_error" =>
        \A u \in op_arg' \cap current_downloads :
            /\ u \notin current_downloads'
            /\ u \notin Range(download_queue')
            /\ (download_queue # <<>>
                /\ Cardinality(current_downloads \ {u}) < max_concurrent)
               => /\ started' # <<>>
                  /\ started'[1] = Head(download_queue)
                  /\ Head(download_queue) \in current_downloads'
            /\ (download_queue' = <<>>
                \/ Cardinality(current_downloads') >= max_concurrent')]_vars

\* an error event for a running URL made room for a pending URL
C8_Witness ==
    /\ op = "_on_download_error"
    /\ op_arg \cap URLs # {}
    /\ op_arg \cap current_downloads = {}
    /\ started # <<>>

(***************************************************************************)
(* C9: when a terminal event of a job (completed or error) leaves the      *)
(* Active Set and the Pending Queue empty, its handler emits exactly one   *)
(* all-done signal; no handler emits more than one, and none emits it      *)
(* otherwise.                                                              *)
(***************************************************************************)
DrainedByTerminalEvent ==
    /\ op \in TerminalOps
    /\ op_arg \cap URLs # {}
    /\ current_downloads = {}
    /\ download_queue = <<>>

C9_AllDoneOncePerDrain ==
    /\ DrainedByTerminalEvent => AllDoneCount = 1
    /\ ~DrainedByTerminalEvent => AllDoneCount = 0

(***************************************************************************)
(* C10: all_downloads_completed is emitted only when the Pending Queue and *)
(* the Active Set are both empty; it is the last thing its handler does,   *)
(* so the state after the handler is the state at the emission.            *)
(***************************************************************************)
C10_AllDoneOnlyWhenEmpty ==
    AllDoneCount > 0 =>
        /\ emitted[Len(emitted)] = AllDone
        /\ download_queue = <<>>
        /\ current_downloads = {}

\* the completion of the last running job emitted all-done
C10_Witness ==
    /\ op = "_on_download_completed"
    /\ AllDoneCount = 1
    /\ started = <<>>

(***************************************************************************)
(* C11: add_urls appends to the Pending Queue, in input order, exactly the *)
(* URLs of the input that are neither pending nor active, each once (a     *)
(* repeated URL counts at its first occurrence), and returns the input     *)
(* list as given.                                                          *)
(***************************************************************************)
\* the positions of urls holding a URL that is new and not seen earlier in urls
FirstNewPositions(urls, q, cd) ==
    {i \in 1..Len(urls) :
        /\ urls[i] \notin Range(q)
        /\ urls[i] \notin cd
        /\ \A j \in 1..(i - 1) : urls[j] # urls[i]}

\* urls restricted to those positions, order kept
RECURSIVE Restrict(_, _, _)
Restrict(urls, keep, i) ==
    IF i > Len(urls)
    THEN <<>>
    ELSE (IF i \in keep THEN <<urls[i]>> ELSE <<>>) \o Restrict(urls, keep, i + 1)

C11_AppendsNewInOrder ==
    [][op' = "add_urls" =>
        \A urls \in Batches :
            add_urls(urls) =>
                /\ emitted'[1].payload =
                      download_queue
                        \o Restrict(urls,
                                    FirstNewPositions(urls, download_queue,
                                                      current_downloads), 1)
                /\ add_urls_return(urls) = urls]_vars

\* an enqueue that named a new URL twice appended it once, behind a URL that
\* was already pending
C11_Witness ==
    /\ op = "add_urls"
    /\ rejected = {"duplicate"}
    /\ Len(emitted[1].payload) = 2

(***************************************************************************)
(* C12: set_max_concurrent changes the limit (and the pool's thread count) *)
(* only: the Pending Queue, the Active Set and the running jobs are as     *)
(* before, nothing is started and no signal is emitted, whether the limit  *)
(* goes up or down.                                                        *)
(***************************************************************************)
C12_SetLimitFrame ==
    [][op' = "set_max_concurrent" =>
        /\ download_queue' = download_queue
        /\ current_downloads' = current_downloads
        /\ pool_tasks' = pool_tasks
        /\ started' = <<>>
        /\ emitted' = <<>>]_vars

\* the limit was raised above the Active Set while URLs were pending, and
\* none of them was admitted
C12_Witness ==
    /\ op = "set_max_concurrent"
    /\ download_queue # <<>>
    /\ Cardinality(current_downloads) < max_concurrent

(***************************************************************************)
(* C13: an enqueue or a job's terminal event that finds free slots (as     *)
(* after the limit was raised while URLs were pending) admits pending URLs *)
(* until the Active Set holds as many URLs as the limit or the Pending     *)
(* Queue is empty.                                                         *)
(***************************************************************************)
AdmittingEvent ==
    \/ op' = "add_urls"
    \/ op' \in TerminalOps /\ op_arg' \cap current_downloads # {}

C13_NextEventFillsSlots ==
    [][AdmittingEvent =>
        LET free == max_concurrent - Cardinality(current_downloads \ op_arg')
            candidates == started' \o download_queue'
        IN /\ free > 0 => Len(started') = Min(free, Len(candidates))
           /\ download_queue' = <<>>
              \/ Cardinality(current_downloads') >= max_concurrent']_vars

\* a terminal event after a raise admitted two pending URLs at once
C13_Witness ==
    /\ op \in TerminalOps
    /\ Len(started) >= 2
    /\ Cardinality(current_downloads) <= max_concurrent

(***************************************************************************)
(* Observations on one download_video call.                                *)
(***************************************************************************)
Last(s) == s[Len(s)]

IsTerminal(e) == e.sig \in {"download_completed", "download_error"}

TerminalCount == Cardinality({i \in 1..Len(events) : IsTerminal(events[i])})

\* the call has returned
Returned == pc = "idle" /\ ret # <<>>

\* the call returned because it met the Shutdown Flag
ShutdownSites == {"268", "333"}

\* started first and only first, then logs, a terminal signal only at the end
StartedLogsTerminal ==
    /\ events # <<>> => events[1] = Started
    /\ \A i \in 2..Len(events) : events[i].sig # "download_started"
    /\ \A i \in 1..Len(events) : IsTerminal(events[i]) => i = Len(events)

C15_PreconditionErrors ==
    [][/\ (pc = "emit_started" /\ pc' # pc /\ output_dir = "") =>
              /\ events' = <<Started, ErrorEvent(NoOutputDirMsg)>>
              /\ ret' = <<FALSE>>
              /\ pc' = "idle"
              /\ UNCHANGED <<registry_vars, proc_vars>>
       /\ (pc = "check_yt_dlp" /\ pc' # pc
           /\ (yt_dlp_path = None \/ ~yt_dlp_file_exists)) =>
              /\ events' = <<Started, ErrorEvent(NoYtDlpMsg)>>
              /\ ret' = <<FALSE>>
              /\ pc' = "idle"
              /\ UNCHANGED <<registry_vars, proc_vars>>
       /\ NoOutputDirMsg # NoYtDlpMsg]_vars

\* a call failed on the executable although the path had been set: the file
\* was not on disk
C15_Witness ==
    /\ Returned
    /\ return_site = "280"
    /\ yt_dlp_path # None
    /\ proc_status = "none"

(***************************************************************************)
(* C16: when download_video reaches its return code, it emits completed if *)
(* and only if the code is zero and otherwise the generic error; an        *)
(* exception of Popen gives an error signal carrying the exception's       *)
(* message; an exception while reading the output is only logged and ends  *)
(* the reading, and the outcome is still decided by the return code.       *)
(***************************************************************************)
ReadRaised ==
    \E i \in 1..Len(events) : events[i] \in {Log(ReadErrorLog), Log(FinalErrorLog)}

MarkerLines == {i \in 1..Len(written) : HasMarker(Strip(written[i]))}

LastDestination ==
    IF MarkerLines = {}
    THEN FallbackName
    ELSE SplitDestination(
            Strip(written[CHOOSE i \in MarkerLines : \A j \in MarkerLines : j <= i]))

C17_LastDestinationWins ==
    (Returned /\ return_site = "383" /\ ~ReadRaised) =>
        Last(events) = CompletedEvent(LastDestination)

(***************************************************************************)
(* C18: is_shutting_down is False after construction and, once cleanup has *)
(* set it, no step of any operation makes it False again.                  *)
(***************************************************************************)
C18_FlagIrreversible ==
    /\ ~is_shutting_down
    /\ [][is_shutting_down => is_shutting_down']_vars

\* cleanup has run to its end and a later call met the flag
C18_Witness ==
    /\ is_shutting_down
    /\ cleanup_pc = "done"
    /\ Returned
    /\ return_site = "268"
    /\ output_dir = SomeDir

(***************************************************************************)
(* C19: once is_shutting_down is True, no download_video call starts a     *)
(* process, however cleanup interleaves with the thread running the call.  *)
(***************************************************************************)
C19_NoSpawnAfterShutdown ==
    [][is_shutting_down => ~(proc_status # "running" /\ proc_status' = "running")]_vars

(***************************************************************************)
(* The controller while the downloader shuts down.  The pool runs          *)
(* download_video for every task it was handed: a task whose call meets    *)
(* the Shutdown Flag returns without a signal, so the controller hears     *)
(* nothing of it.  Terminal signals are taken to be handled before the     *)
(* flag is set.                                                            *)
(***************************************************************************)
\* DownloadTask.run for url: download_video returns False at line 269 or 333
task_returns_silently(url) ==
    /\ is_shutting_down
    /\ pool_tasks[url] > 0
    /\ pool_tasks' = [pool_tasks EXCEPT ![url] = @ - 1]
    /\ UNCHANGED <<download_queue, current_downloads, max_concurrent,
                   pool_max_threads, op, op_arg, emitted, started, cleared,
                   rejected>>
    /\ UNCHANGED dvars
    /\ UNCHANGED validator_vars
    /\ UNCHANGED window_vars

CompletedInTime == ~is_shutting_down /\ Completed

FailedInTime == ~is_shutting_down /\ Failed

SilentReturn == \E url \in URLs : task_returns_silently(url)

ShutdownNext ==
    \/ Enqueue
    \/ CompletedInTime
    \/ FailedInTime
    \/ clear_queue
    \/ SetLimit
    \/ SilentReturn
    \/ cleanup_begin
    \/ cleanup_stop_timer
    \/ cleanup_terminate
    \/ cleanup_remove

ShutdownSpec == Init /\ [][ShutdownNext]_vars

(***************************************************************************)
(* C20: once is_shutting_down is True, no handler of the controller moves  *)
(* a URL into current_downloads or hands a task to the pool.               *)
(***************************************************************************)
C20_NoAdmissionAfterShutdown ==
    [][is_shutting_down =>
          /\ current_downloads' \subseteq current_downloads
          /\ \A u \in URLs : pool_tasks'[u] <= pool_tasks[u]]_vars

(***************************************************************************)
(* C27: _process_queue runs at the end of add_urls and of the handler of   *)
(* every job's terminal signal, so when such a handler has finished the    *)
(* Pending Queue is empty or the Active Set has reached the limit.         *)
(***************************************************************************)
C27_NoFreeSlotWhilePending ==
    (op = "add_urls" \/ (op \in TerminalOps /\ op_arg \subseteq URLs)) =>
        \/ download_queue = <<>>
        \/ Cardinality(current_downloads) >= max_concurrent

\* a job's completion freed a slot, the head of the queue took it and a URL
\* is still waiting
C27_Witness ==
    /\ op = "_on_download_completed"
    /\ op_arg \subseteq URLs
    /\ Len(started) = 1
    /\ download_queue # <<>>
    /\ Cardinality(current_downloads) = max_concurrent

(***************************************************************************)
(* C28: the handlers run one at a time on the controller's thread, so      *)
(* however the terminal signals of jobs finishing together interleave with *)
(* add_urls calls, every URL that enters the Active Set is handed to the   *)
(* pool exactly once, no URL has two jobs, and an admission never takes    *)
(* the Active Set beyond the limit.                                        *)
(***************************************************************************)
OneJobPerActiveUrl ==
    \A u \in URLs : pool_tasks[u] = (IF u \in current_downloads THEN 1 ELSE 0)

C28_NoDoubleAdmission ==
    /\ []OneJobPerActiveUrl
    /\ [][/\ \A u \in current_downloads' \ current_downloads :
                /\ Occurrences(started', u) = 1
                /\ Occurrences(download_queue', u) = 0
                /\ pool_tasks'[u] = pool_tasks[u] + 1
          /\ Range(started') = current_downloads' \ current_downloads
          /\ current_downloads' \ current_downloads # {} =>
                Cardinality(current_downloads') <= max_concurrent']_vars

\* one of two running jobs ended, its handler admitted the next URL while
\* the other job was still running
C28_Witness ==
    /\ op \in TerminalOps
    /\ Len(started) = 1
    /\ Cardinality(current_downloads) >= 2
    /\ \E u \in current_downloads : u \notin Range(started) /\ pool_tasks[u] = 1

(***************************************************************************)
(* C29: if every job handed to the pool ends with a terminal signal, every *)
(* URL in the Pending Queue eventually leaves it, admitted to the Active   *)
(* Set unless clear_queue dropped it, whatever add_urls, terminal and      *)
(* set_max_concurrent events come in between.                              *)
(***************************************************************************)
C29_PendingEventuallyLeaves ==
    \A u \in URLs :
        (u \in Range(download_queue)) ~>
            (u \in current_downloads \/ u \in cleared)

\* a URL waits in the queue behind another while the limit is reached
C29_Witness ==
    /\ Len(download_queue) >= 2
    /\ Cardinality(current_downloads) >= max_concurrent
    /\ cleared = {}

(***************************************************************************)
(* C24: set_output_dir(directory) stores the directory while                *)
(* is_shutting_down is False and leaves output_dir alone once it is True;   *)
(* it touches nothing else of the downloader.                               *)
(***************************************************************************)
C24_SetOutputDirGuarded ==
    [][/\ \A directory \in {"", SomeDir} :
             set_output_dir(directory) =>
                 /\ output_dir' = IF is_shutting_down THEN output_dir ELSE directory
                 /\ UNCHANGED <<is_shutting_down, yt_dlp_path, temp_dir_exists,
                                yt_dlp_file_exists, registry_vars, job_vars,
                                proc_vars>>
       /\ is_shutting_down => output_dir' = output_dir
       /\ (~is_shutting_down /\ requested_dir' # requested_dir) =>
             output_dir' = requested_dir']_vars

\* set_output_dir(SomeDir) was called after the flag was set and did nothing
C24_Witness ==
    /\ is_shutting_down
    /\ requested_dir = SomeDir
    /\ output_dir = ""

(***************************************************************************)
(* C25: when initialize_yt_dlp has failed (the last yt_dlp_status signal is *)
(* "error"), is_yt_dlp_available() is False.                                *)
(***************************************************************************)
is_yt_dlp_available == ~YtDlpUnavailable(yt_dlp_path, yt_dlp_file_exists)

C25_FailedInitLeavesUnavailable ==
    (init_pc = "idle" /\ yt_dlp_status = "error") => ~is_yt_dlp_available

\* a job spawned yt-dlp although the last initialize_yt_dlp had failed
C25_SpawnAfterFailedInit ==
    /\ yt_dlp_status = "error"
    /\ init_pc = "idle"
    /\ pc = "register"
    /\ proc_status = "running"

(***************************************************************************)
(* C22: once cleanup has finished and download_video has returned, the      *)
(* process the job spawned is not running.                                  *)
(***************************************************************************)
C22_NoProcessOutlivesShutdown ==
    (cleanup_pc = "done" /\ pc = "idle") => proc_status # "running"

(***************************************************************************)
(* C21: a cleanup() invoked after an earlier one has finished raises        *)
(* nothing and runs the same steps again.  It keeps the flag set, ends a    *)
(* process only if one was registered since (and still runs), removes the   *)
(* temporary directory only if the first removal left it, and stops the     *)
(* timer only if it was restarted; with nothing registered, the directory   *)
(* gone and the timer stopped every step leaves the downloader as it was.   *)
(***************************************************************************)
RepeatedCleanupStep == cleanup_again' /\ cleanup_pc' # cleanup_pc

NothingLeftToCleanUp ==
    /\ active_processes = {}
    /\ download_process_pids = {}
    /\ ~temp_dir_exists
    /\ ~cleanup_timer_active

C30_ReturnRemovesFromActiveSet ==
    [][\A url \in URLs :
          pool_tasks'[url] < pool_tasks[url] =>
              /\ op' \in TerminalOps
              /\ op_arg' = {url}
              /\ url \notin current_downloads']_vars

\* a URL is in the Active Set and no download_video call is left to end it
C30_StuckInActiveSet ==
    /\ is_shutting_down
    /\ \E url \in current_downloads : pool_tasks[url] = 0

(***************************************************************************)
(* cleanup with several processes in the registry.  Jobs spawn and         *)
(* register their processes before the flag is set (line 268 turns later    *)
(* calls away); terminate_processes then walks the handles and the pids,    *)
(* and each step on a process can raise.                                    *)
(***************************************************************************)
\* download_video, lines 297-321, for the process p of some job
spawn_and_register(p) ==
    /\ ~is_shutting_down
    /\ p \notin running
    /\ p \notin active_processes
    /\ running' = running \cup {p}
    /\ active_processes' = active_processes \cup {p}
    /\ download_process_pids' = download_process_pids \cup {p}
    /\ \/ stubborn' = stubborn \cup {p}
       \/ stubborn' = stubborn \ {p}
    /\ UNCHANGED <<attempted, pid_attempted, unreaped, sent>>
    /\ UNCHANGED <<is_shutting_down, config_vars, cleanup_timer_active,
                   cleanup_pc, job_vars, proc_vars, call_vars>>
    /\ UNCHANGED cvars
    /\ UNCHANGED validator_vars
    /\ UNCHANGED window_vars

\* the process p ends by itself
process_exits(p) ==
    /\ p \in running
    /\ running' = running \ {p}
    /\ unreaped' = unreaped \cup {p}
    /\ UNCHANGED <<attempted, pid_attempted, stubborn, sent>>
    /\ UNCHANGED <<is_shutting_down, config_vars, cleanup_timer_active,
                   registry_vars, cleanup_pc, job_vars, proc_vars, call_vars>>
    /\ UNCHANGED cvars
    /\ UNCHANGED validator_vars
    /\ UNCHANGED window_vars

\* psutil.pid_exists(pid), line 230: the pid of a process that runs, or that
\* has ended and was not waited for
pid_exists(p) == p \in running \/ p \in unreaped

\* lines 205-216 and 245-249: terminate, wait(timeout=1), and the kill when
\* the wait timed out.  A process that has ended takes the terminate request
\* and the wait returns at once
Signals(p) ==
    IF p \in running /\ p \in stubborn
    THEN <<"terminate", "kill">>
    ELSE <<"terminate">>

\* poll() and a wait that returns collect the process; the kill after the
\* timeout is not followed by a wait
UnreapedAfter(p) ==
    IF p \in running /\ p \in stubborn
    THEN unreaped \cup {p}
    ELSE unreaped \ {p}

\* faulty variant of terminate_by_handle without the try around the process:
\* the exception leaves terminate_processes and ends cleanup at line 195
terminate_by_handle_aborting(p) ==
    /\ cleanup_pc = "terminate"
    /\ p \in active_processes \ attempted
    /\ attempted' = attempted \cup {p}
    /\ \/ /\ running' = running \ {p}
          /\ unreaped' = UnreapedAfter(p)
          /\ sent' = [sent EXCEPT ![p] =
                         @ \o (IF p \in running THEN Signals(p) ELSE <<>>)]
          /\ active_processes' = active_processes \ {p}
          /\ cleanup_log' =
                cleanup_log \cup
                   (IF p \in running THEN {"Terminated process"} ELSE {})
          /\ UNCHANGED cleanup_pc
       \/ /\ cleanup_log' = cleanup_log \cup {"Error during cleanup"}
          /\ cleanup_pc' = "done"
          /\ UNCHANGED <<running, active_processes, unreaped, sent>>
    /\ UNCHANGED <<download_process_pids, pid_attempted, stubborn>>
    /\ UNCHANGED <<is_shutting_down, config_vars, cleanup_timer_active,
                   job_vars, proc_vars>>
    /\ UNCHANGED <<requested_dir, yt_dlp_status, init_pc, cleanup_again>>
    /\ UNCHANGED cvars
    /\ UNCHANGED validator_vars
    /\ UNCHANGED window_vars

\* terminate_processes, lines 201-225: one turn of the loop over the handles.
\* poll, terminate, wait and the kill after the timeout end the process and
\* take it off the list; an exception from any of them is printed and the
\* loop goes on
terminate_by_handle(p) ==
    /\ cleanup_pc = "terminate"
    /\ p \in active_processes \ attempted
    /\ attempted' = attempted \cup {p}
    /\ \/ /\ running' = running \ {p}
          /\ unreaped' = UnreapedAfter(p)
          /\ sent' = [sent EXCEPT ![p] =
                         @ \o (IF p \in running THEN Signals(p) ELSE <<>>)]
          /\ active_processes' = active_processes \ {p}
          /\ cleanup_log' =
                cleanup_log \cup
                   (IF p \in running THEN {"Terminated process"} ELSE {})
       \/ /\ cleanup_log' = cleanup_log \cup {"Error terminating process"}
          /\ UNCHANGED <<running, active_processes, unreaped, sent>>
    /\ UNCHANGED <<download_process_pids, pid_attempted, cleanup_pc, stubborn>>
    /\ UNCHANGED <<is_shutting_down, config_vars, cleanup_timer_active,
                   job_vars, proc_vars>>
    /\ UNCHANGED <<requested_dir, yt_dlp_status, init_pc, cleanup_again>>
    /\ UNCHANGED cvars
    /\ UNCHANGED validator_vars
    /\ UNCHANGED window_vars

\* terminate_processes, lines 228-261: one turn of the loop over the pids,
\* entered when the loop over the handles is over
terminate_by_pid(p) ==
    /\ cleanup_pc = "terminate"
    /\ active_processes \subseteq attempted
    /\ p \in download_process_pids \ pid_attempted
    /\ pid_attempted' = pid_attempted \cup {p}
    /\ \/ /\ running' = running \ {p}
          /\ unreaped' = UnreapedAfter(p)
          /\ sent' = [sent EXCEPT ![p] =
                         @ \o (IF pid_exists(p) THEN Signals(p) ELSE <<>>)]
          /\ download_process_pids' = download_process_pids \ {p}
          /\ cleanup_log' =
                cleanup_log \cup
                   (IF pid_exists(p) THEN {"Terminated process"} ELSE {})
       \/ /\ cleanup_log' = cleanup_log \cup {"Error terminating process by PID"}
          /\ UNCHANGED <<running, download_process_pids, unreaped, sent>>
    /\ UNCHANGED <<active_processes, attempted, cleanup_pc, stubborn>>
    /\ UNCHANGED <<is_shutting_down, config_vars, cleanup_timer_active,
                   job_vars, proc_vars>>
    /\ UNCHANGED <<requested_dir, yt_dlp_status, init_pc, cleanup_again>>
    /\ UNCHANGED cvars
    /\ UNCHANGED validator_vars
    /\ UNCHANGED window_vars

\* terminate_processes, lines 263-264: both loops are over
terminate_clear ==
    /\ cleanup_pc = "terminate"
    /\ active_processes \subseteq attempted
    /\ download_process_pids \subseteq pid_attempted
    /\ active_processes' = {}
    /\ download_process_pids' = {}
    /\ cleanup_pc' = "remove"
    /\ UNCHANGED <<running, attempted, pid_attempted, signal_vars>>
    /\ UNCHANGED <<is_shutting_down, config_vars, cleanup_timer_active,
                   job_vars, proc_vars, call_vars>>
    /\ UNCHANGED cvars
    /\ UNCHANGED validator_vars
    /\ UNCHANGED window_vars

SpawnAndRegister == \E p \in Procs : spawn_and_register(p)

ProcessExits == \E p \in Procs : process_exits(p)

TerminateByHandle == \E p \in Procs : terminate_by_handle(p)

TerminateByPid == \E p \in Procs : terminate_by_pid(p)

CleanupNext ==
    \/ SpawnAndRegister
    \/ ProcessExits
    \/ start_cleanup_timer
    \/ cleanup_begin
    \/ cleanup_stop_timer
    \/ TerminateByHandle
    \/ TerminateByPid
    \/ terminate_clear
    \/ cleanup_remove

CleanupSpec == Init /\ [][CleanupNext]_vars

(***************************************************************************)
(* C23: an exception while one registered process is terminated does not    *)
(* keep terminate_processes from taking every other registered process,    *)
(* nor cleanup from removing the temporary directory; a removal that fails  *)
(* is logged; every cleanup runs to its end.                                *)
(***************************************************************************)
CleanupRanToItsEnd ==
    cleanup_pc = "done" =>
        /\ active_processes = {}
        /\ download_process_pids = {}
        /\ temp_dir_exists => "Error during cleanup" \in cleanup_log

Space == " "

Newline == "\n"

Words == {"http://a.com", "https://b.org", "ftp://c.net"}

EntryChars == Words \cup {Space}

TextChars == EntryChars \cup {Newline}

StringsUpTo(chars, n) == UNION {[1..k -> chars] : k \in 0..n}

\* is_valid_url(url)
is_valid_url(url) ==
    /\ Len(url) = 1
    /\ url[1] \in {"http://a.com", "https://b.org"}

\* urls.split('\n')
RECURSIVE SplitLines(_)
SplitLines(text) ==
    IF \A i \in 1..Len(text) : text[i] # Newline
    THEN <<text>>
    ELSE LET first == CHOOSE i \in 1..Len(text) :
                          /\ text[i] = Newline
                          /\ \A j \in 1..(i - 1) : text[j] # Newline
         IN <<SubSeq(text, 1, first - 1)>>
                \o SplitLines(SubSeq(text, first + 1, Len(text)))

\* url.strip()
RECURSIVE StripUrl(_)
StripUrl(url) ==
    IF url = <<>> THEN url
    ELSE IF Head(url) \in {Space, Newline} THEN StripUrl(Tail(url))
    ELSE IF url[Len(url)] \in {Space, Newline}
         THEN StripUrl(SubSeq(url, 1, Len(url) - 1))
    ELSE url

\* [url.strip() for url in urls.split('\n') if url.strip()]
StrippedLines(text) ==
    LET lines == SplitLines(text)
        stripped == [i \in 1..Len(lines) |-> StripUrl(lines[i])]
        NotBlank(url) == url # <<>>
    IN SelectSeq(stripped, NotBlank)

\* faulty variant of UrlList that validates the lines of a text as they are
UrlListUnstripped(urls) ==
    IF urls.kind = "text" THEN SplitLines(urls.value) ELSE urls.value

\* lines 19-22: the entries clean_url_list validates
UrlList(urls) ==
    IF urls.kind = "text" THEN StrippedLines(urls.value) ELSE urls.value

\* clean_url_list(urls)
clean_url_list(urls) == SelectSeq(UrlList(urls), is_valid_url)

Texts == StringsUpTo(TextChars, MaxTextLen)

Entries == StringsUpTo(EntryChars, MaxEntryLen)

EntryLists == StringsUpTo(Entries, MaxEntries)

Inputs ==
    {[kind |-> "text", value |-> t] : t \in Texts}
    \cup {[kind |-> "list", value |-> l] : l \in EntryLists}

ValidatorInit ==
    /\ ControllerInit
    /\ DownloaderInit
    /\ url_input \in Inputs
    /\ cleaned_urls = <<>>
    /\ validator_pc = "ready"
    /\ MainWindowInit

\* the call clean_url_list(url_input)
clean_url_list_call ==
    /\ validator_pc = "ready"
    /\ cleaned_urls' = clean_url_list(url_input)
    /\ validator_pc' = "returned"
    /\ UNCHANGED url_input
    /\ UNCHANGED <<cvars, dvars>>
    /\ UNCHANGED window_vars

ValidatorNext == clean_url_list_call

ValidatorSpec == ValidatorInit /\ [][ValidatorNext]_vars

(***************************************************************************)
(* C26: clean_url_list returns, in input order, the entries that pass       *)
(* is_valid_url.  The entries of a list are its elements as given; the      *)
(* entries of a text are its lines with the whitespace at both ends         *)
(* removed.  Blank entries and entries that fail are dropped; empty input   *)
(* gives the empty list.                                                    *)
(***************************************************************************)
\* out is src without the elements that fail Keep, in the order of src
IsFiltered(out, src, Keep(_)) ==
    /\ Len(out) = Cardinality({i \in 1..Len(src) : Keep(src[i])})
    /\ \A k \in 1..Len(out) :
          \E i \in 1..Len(src) :
              /\ Keep(src[i])
              /\ Cardinality({j \in 1..i : Keep(src[j])}) = k
              /\ out[k] = src[i]

\* the lines of a text: what lies between two neighbouring line breaks
RawLines(text) ==
    LET breaks == {0, Len(text) + 1} \cup {i \in 1..Len(text) : text[i] = Newline}
        nth(k) == CHOOSE b \in breaks : Cardinality({c \in breaks : c < b}) = k - 1
    IN [k \in 1..(Cardinality(breaks) - 1) |->
            SubSeq(text, nth(k) + 1, nth(k + 1) - 1)]

\* a line from its first to its last piece that is not whitespace
Trimmed(line) ==
    LET solid == {i \in 1..Len(line) : line[i] \notin {Space, Newline}}
    IN IF solid = {}
       THEN <<>>
       ELSE SubSeq(line,
                   CHOOSE i \in solid : \A j \in solid : i <= j,
                   CHOOSE i \in solid : \A j \in solid : j <= i)

TrimmedLines(text) ==
    [k \in 1..Len(RawLines(text)) |-> Trimmed(RawLines(text)[k])]

C26_CleanedUrls ==
    validator_pc = "returned" =>
        /\ IF url_input.kind = "text"
           THEN IsFiltered(cleaned_urls, TrimmedLines(url_input.value), is_valid_url)
           ELSE IsFiltered(cleaned_urls, url_input.value, is_valid_url)
        /\ url_input.value = <<>> => cleaned_urls = <<>>

\* the original statement: the result is the entries that pass is_valid_url,
\* for a text as for a list
C26_ExactlyTheValidEntries ==
    validator_pc = "returned" =>
        IF url_input.kind = "text"
        THEN IsFiltered(cleaned_urls, RawLines(url_input.value), is_valid_url)
        ELSE IsFiltered(cleaned_urls, url_input.value, is_valid_url)

\* a text with a padded line and a second URL: both are returned, in order
C26_Witness ==
    /\ validator_pc = "returned"
    /\ url_input.kind = "text"
    /\ Space \in Range(url_input.value)
    /\ Len(cleaned_urls) = 2
    /\ cleaned_urls[1] # cleaned_urls[2]

(***************************************************************************)
(* C38: a handler that changes download_queue ends with                     *)
(* download_queue_updated carrying the queue as the handler leaves it, and  *)
(* a handler that emits no download_queue_updated leaves the queue alone:   *)
(* the payload emitted last is always the current Pending Queue.            *)
(***************************************************************************)
C38_LastNotificationIsQueue ==
    [][IF QueueUpdates' # <<>>
       THEN Last(QueueUpdates').payload = download_queue'
       ELSE download_queue' = download_queue]_vars

\* add_urls notified twice: the queue with the new URLs, then what
\* _process_queue left of it
C38_Witness ==
    /\ op = "add_urls"
    /\ Len(emitted) = 2
    /\ emitted[1].payload # download_queue
    /\ emitted[2].payload = download_queue
    /\ download_queue # <<>>

(***************************************************************************)
(* C39: _process_queue admits a URL only while the Active Set is smaller    *)
(* than max_concurrent; a handler that finds the Active Set at or above the *)
(* limit, after taking its own URL out, admits nothing.                     *)
(***************************************************************************)
C39_AdmissionBelowLimit ==
    [][LET admitted == current_downloads' \ current_downloads
           remaining == current_downloads \cap current_downloads'
       IN /\ admitted # {} =>
                /\ Cardinality(remaining) < max_concurrent
                /\ Cardinality(current_downloads') <= max_concurrent
                /\ max_concurrent' = max_concurrent
          /\ Cardinality(remaining) >= max_concurrent =>
                /\ admitted = {}
                /\ started' = <<>>
                /\ pool_tasks' = [u \in URLs |->
                                     IF u \in current_downloads'
                                     THEN pool_tasks[u] ELSE 0]]_vars

\* the limit was lowered under the Active Set: a job ended, the Active Set
\* is still at the limit and the pending URL waits
C39_Witness ==
    /\ op \in TerminalOps
    /\ op_arg \subseteq URLs
    /\ op_arg \cap current_downloads = {}
    /\ started = <<>>
    /\ download_queue # <<>>
    /\ Cardinality(current_downloads) >= max_concurrent

(***************************************************************************)
(* C31: when a download_video call has run to its end, the download_log     *)
(* signals it emitted for output lines are the non-empty lines the process  *)
(* wrote, each once and in order.                                           *)
(***************************************************************************)
\* the lines the call forwarded, in order
LoggedLines ==
    LET logged == SelectSeq(events,
                            LAMBDA e : e.sig = "download_log" /\ e.detail \in Lines)
    IN [i \in 1..Len(logged) |-> logged[i].detail]

\* the lines the process wrote that are not blank
NonEmptyWritten == SelectSeq(written, LAMBDA line : Strip(line) # "")

C31_EveryLineLogged ==
    (/\ pc = "idle"
     /\ return_site \in {"383", "386"}
     /\ UndecodableLine \notin Range(written)) =>
        LoggedLines = NonEmptyWritten

\* a call that ended with a line of its process never forwarded
C31_LineNeverLogged ==
    /\ pc = "idle"
    /\ return_site = "383"
    /\ proc_status = "exited"
    /\ UndecodableLine \notin Range(written)
    /\ Len(LoggedLines) < Len(NonEmptyWritten)

(***************************************************************************)
(* C32: a download_video call that comes to the top of its read loop with   *)
(* is_shutting_down True terminates its process and returns False at line   *)
(* 333: it reads nothing more and emits nothing more.  A read under way     *)
(* when the flag is set ends at the top of the loop or leaves the loop.     *)
(***************************************************************************)
C32_LoopObservesFlag ==
    [][/\ (pc = "loop" /\ is_shutting_down /\ pc' # pc) =>
              /\ pc' = "idle"
              /\ ret' = <<FALSE>>
              /\ return_site' = "333"
              /\ proc_status' # "running"
              /\ proc_status = "running" => proc_returncode' = {TerminatedCode}
              /\ UNCHANGED <<nread, complete_output, output_filename, events>>
       /\ (pc = "readline" /\ is_shutting_down /\ pc' # pc) =>
              /\ pc' \in {"loop", "fallback"}
              /\ nread' <= nread + 1]_vars

\* a call left at line 333 with output of its process unread and no
\* terminal signal
C32_Witness ==
    /\ pc = "idle"
    /\ return_site = "333"
    /\ ret = <<FALSE>>
    /\ proc_returncode = {TerminatedCode}
    /\ nread < Len(written)
    /\ Len(events) >= 2
    /\ TerminalCount = 0

(***************************************************************************)
(* C35: when a download_video call that spawned a process has returned,     *)
(* the process is in neither tracking collection.                           *)
(***************************************************************************)
SpawnedAndReturned == pc = "idle" /\ return_site \in {"333", "383", "386"}

C35_DeregisteredOnReturn ==
    SpawnedAndReturned =>
        /\ Handle \notin active_processes
        /\ Handle \notin download_process_pids

\* the call returned at line 333 after cleanup had emptied the collections:
\* its process is registered for good
C35_RegisteredAfterReturn ==
    /\ pc = "idle"
    /\ return_site = "333"
    /\ cleanup_pc = "done"
    /\ Handle \in active_processes
    /\ Handle \in download_process_pids

(***************************************************************************)
(* C36: check_processes takes out of the tracking collections only a        *)
(* process that has exited, and nothing once is_shutting_down is True; it   *)
(* changes nothing else.                                                    *)
(***************************************************************************)
C36_PollRemovesOnlyExited ==
    [][/\ check_processes =>
              /\ UNCHANGED <<is_shutting_down, config_vars, cleanup_timer_active,
                             cleanup_pc, job_vars, proc_vars>>
              /\ active_processes' \subseteq active_processes
              /\ download_process_pids' \subseteq download_process_pids
       /\ (/\ <<active_processes, download_process_pids>>' #
                 <<active_processes, download_process_pids>>
           /\ pc' = pc
           /\ cleanup_pc' = cleanup_pc) =>
              /\ ~is_shutting_down
              /\ cleanup_timer_active
              /\ proc_status = "exited"
              /\ active_processes' = active_processes \ {Handle}
              /\ download_process_pids' = download_process_pids \ {Handle}]_vars

\* the poll took the exited process out while its job was still in the loop
C36_Witness ==
    /\ pc \in {"loop", "poll", "fallback", "finish"}
    /\ proc_status = "exited"
    /\ ~is_shutting_down
    /\ cleanup_timer_active
    /\ Handle \notin active_processes
    /\ Handle \notin download_process_pids

(***************************************************************************)
(* C37: once cleanup has finished, active_processes and                     *)
(* download_process_pids are empty.                                         *)
(***************************************************************************)
C37_RegistryEmptyAfterCleanup ==
    cleanup_pc = "done" =>
        /\ active_processes = {}
        /\ download_process_pids = {}

\* the job registered its process after cleanup had finished
C37_RegisteredAfterCleanup ==
    /\ cleanup_pc = "done"
    /\ pc = "loop"
    /\ proc_status = "running"
    /\ Handle \in active_processes

(***************************************************************************)
(* C33: cleanup takes its steps in one order.  is_shutting_down is set      *)
(* first; the timer is stopped only with the flag set; a registered process *)
(* is ended and the collections are emptied only with the flag set and the  *)
(* timer stopped; the temporary directory is removed only after that, with  *)
(* the collections empty.  When cleanup has returned the directory is gone, *)
(* or its removal failed and the failure was logged.                        *)
(***************************************************************************)
CleanupOrder ==
    /\ cleanup_pc' # cleanup_pc =>
          <<cleanup_pc, cleanup_pc'>> \in
             {<<"idle", "stop_timer">>, <<"done", "stop_timer">>,
              <<"stop_timer", "terminate">>, <<"terminate", "remove">>,
              <<"remove", "done">>}
    /\ (~is_shutting_down /\ is_shutting_down') =>
          /\ cleanup_pc = "idle"
          /\ cleanup_pc' = "stop_timer"
          /\ UNCHANGED <<cleanup_timer_active, registry_vars, running,
                         temp_dir_exists>>
    /\ (cleanup_timer_active /\ ~cleanup_timer_active') =>
          /\ is_shutting_down
          /\ cleanup_pc = "stop_timer"
          /\ UNCHANGED <<registry_vars, running, temp_dir_exists>>
    /\ (sent' # sent \/ attempted' \notin {attempted, {}}
                     \/ pid_attempted' \notin {pid_attempted, {}}
                     \/ ~(active_processes \subseteq active_processes')
                     \/ ~(download_process_pids \subseteq download_process_pids')) =>
          /\ is_shutting_down
          /\ ~cleanup_timer_active
          /\ cleanup_pc = "terminate"
          /\ UNCHANGED temp_dir_exists
    /\ (temp_dir_exists /\ ~temp_dir_exists') =>
          /\ is_shutting_down
          /\ ~cleanup_timer_active
          /\ cleanup_pc = "remove"
          /\ active_processes = {}
          /\ download_process_pids = {}

C33_ShutdownOrder ==
    /\ [](cleanup_pc = "done" =>
             /\ is_shutting_down
             /\ temp_dir_exists => "Error during cleanup" \in cleanup_log)
    /\ [][CleanupOrder]_vars

\* the original statement: the same order, and no directory once cleanup
\* has returned
C33_DirectoryGoneAfterCleanup ==
    /\ [](cleanup_pc = "done" => ~temp_dir_exists)
    /\ [][CleanupOrder]_vars

\* cleanup stopped a running timer, ended a process and returned with the
\* directory still there
C33_Witness ==
    /\ cleanup_pc = "done"
    /\ is_shutting_down
    /\ ~cleanup_timer_active
    /\ \E p \in Procs : sent[p] # <<>>
    /\ temp_dir_exists
    /\ "Error during cleanup" \in cleanup_log

(***************************************************************************)
(* C34: what terminate_processes sends a registered process at one turn is  *)
(* a terminate request, followed by a kill exactly when the process         *)
(* outlives the wait; a running process is sent the request unless the      *)
(* turn raised, and a process that has ended is sent nothing.               *)
(***************************************************************************)
SentNow(p) == SubSeq(sent'[p], Len(sent[p]) + 1, Len(sent'[p]))

GracefulThenKill ==
    \A p \in Procs :
       sent'[p] # sent[p] =>
          /\ cleanup_pc = "terminate"
          /\ p \in active_processes \cup download_process_pids
          /\ Len(sent'[p]) > Len(sent[p])
          /\ SubSeq(sent'[p], 1, Len(sent[p])) = sent[p]
          /\ SentNow(p) \in {<<"terminate">>, <<"terminate", "kill">>}
          /\ SentNow(p) = <<"terminate", "kill">> <=>
                (p \in running /\ p \in stubborn)
          /\ p \notin running'

HandleTurn(p) == p \in attempted' \ attempted

SignalledByHandle ==
    \A p \in Procs :
       HandleTurn(p) =>
          /\ p \notin running => sent'[p] = sent[p]
          /\ (p \in running /\ p \notin active_processes') => sent'[p] # sent[p]

C34_GracefulThenForced ==
    [][/\ GracefulThenKill
       /\ SignalledByHandle
       /\ \A p \in Procs : sent'[p] # sent[p] => p \in running]_vars

\* what holds instead: a process is sent something only while its pid exists
SignalledWhilePidExists ==
    [][/\ GracefulThenKill
       /\ SignalledByHandle
       /\ \A p \in Procs : sent'[p] # sent[p] => pid_exists(p)]_vars

\* one process was killed after the wait and sent a further request through
\* its pid, the other had ended and was sent nothing
C34_SignalledAfterKill ==
    /\ cleanup_pc = "done"
    /\ \E p, q \in Procs :
          /\ sent[p] = <<"terminate", "kill", "terminate">>
          /\ q \in attempted
          /\ sent[q] = <<>>

(***************************************************************************)
(* The queue bookkeeping of MainWindow beside DownloadController.  The two  *)
(* are given the same events: the list clean_url_list returned for the text *)
(* of a start_downloads that passed its checks of yt_dlp_ready, the text    *)
(* and the output directory (lines 415-432), the terminal signals of the    *)
(* downloader, and the values of the spin box.                              *)
(***************************************************************************)
\* the range of concurrent_spin, line 179, up to the bound of the model
SpinValues == 1..MaxCount

\* start_downloads, lines 443-450: the for loop, run on the list urls
RECURSIVE WindowAppendNew(_, _, _, _)
WindowAppendNew(urls, q, widgets, cd) ==
    IF urls = <<>>
    THEN [queue |-> q, widgets |-> widgets]
    ELSE IF Head(urls) \notin widgets /\ Head(urls) \notin cd
         THEN WindowAppendNew(Tail(urls), Append(q, Head(urls)),
                              widgets \cup {Head(urls)}, cd)
         ELSE WindowAppendNew(Tail(urls), q, widgets, cd)

\* MainWindow._process_queue, lines 460-471
RECURSIVE WindowProcessQueue(_, _, _)
WindowProcessQueue(q, cd, max) ==
    IF Cardinality(cd) < max /\ Len(q) > 0
    THEN WindowProcessQueue(Tail(q), cd \cup {Head(q)}, max)
    ELSE [queue |-> q, current |-> cd]

\* MainWindow.start_downloads, lines 435-458, for the list urls
start_downloads(urls) ==
    IF urls # <<>>
    THEN LET a == WindowAppendNew(urls, window_download_queue,
                                  window_download_widgets,
                                  window_current_downloads)
             r == WindowProcessQueue(a.queue, window_current_downloads,
                                     window_max_thread_count)
         IN /\ window_download_queue' = r.queue
            /\ window_current_downloads' = r.current
            /\ window_download_widgets' = a.widgets
            /\ UNCHANGED window_max_thread_count
    ELSE UNCHANGED window_vars

\* MainWindow.on_download_completed and MainWindow.on_download_error,
\* lines 486-488 and 500-502: the same bookkeeping
window_on_download_ended(url) ==
    IF url \in window_current_downloads
    THEN LET r == WindowProcessQueue(window_download_queue,
                                     window_current_downloads \ {url},
                                     window_max_thread_count)
         IN /\ window_download_queue' = r.queue
            /\ window_current_downloads' = r.current
            /\ UNCHANGED <<window_download_widgets, window_max_thread_count>>
    ELSE UNCHANGED window_vars

\* MainWindow.set_max_concurrent, lines 408-410
window_set_max_concurrent(value) ==
    /\ window_max_thread_count' = value
    /\ UNCHANGED <<window_download_queue, window_current_downloads,
                   window_download_widgets>>

\* one event, handled by the controller and by the window
BothEnqueue == \E urls \in Batches : add_urls(urls) /\ start_downloads(urls)

BothCompleted ==
    \E url \in URLs : on_download_completed(url) /\ window_on_download_ended(url)

BothFailed ==
    \E url \in URLs : on_download_error(url) /\ window_on_download_ended(url)

BothSetLimit ==
    \E value \in SpinValues :
        set_max_concurrent(value) /\ window_set_max_concurrent(value)

BothNext ==
    \/ BothEnqueue
    \/ BothCompleted
    \/ BothFailed
    \/ BothSetLimit

BothSpec == Init /\ [][BothNext]_vars

(***************************************************************************)
(* C40: given the same enqueue, terminal and set-limit events, MainWindow   *)
(* and DownloadController have the same queue and the same set of current   *)
(* downloads after every event.                                             *)
(***************************************************************************)
C40_WindowRefinesController ==
    /\ window_download_queue = download_queue
    /\ window_current_downloads = current_downloads

\* a URL that had ended was given again: the controller took it, the window
\* did not
C40_ReenqueuedOnlyInController ==
    /\ op = "add_urls"
    /\ \E url \in window_download_widgets :
          /\ url \notin window_current_downloads
          /\ url \notin Range(window_download_queue)
          /\ url \in current_downloads \cup Range(download_queue)

\* the limit was raised and a list with nothing new was given: the
\* controller admitted from its queue, the window did not
C40_AdmittedOnlyInController ==
    /\ op = "add_urls"
    /\ window_download_queue # <<>>
    /\ download_queue = <<>>
    /\ Range(window_download_queue) \subseteq current_downloads
    /\ window_download_widgets = current_downloads

====
